---- MODULE Spec2Model ----
(***************************************************************************)
(* Model of the recommendation service's result cache (utils/cache.py),    *)
(* the diversifier (services/similarity_engine.py) and the recommendation  *)
(* orchestrator (services/recommendation_engine.py).                       *)
(*                                                                         *)
(* Python strings that the code builds, sorts or measures are modelled as  *)
(* sequences of one-character strings.                                     *)
(***************************************************************************)
EXTENDS Integers, Sequences, FiniteSets, TLC

(***************************************************************************)
(* Bounds of the model.                                                    *)
(***************************************************************************)
MaxTime == 2
MaxOps == 3

(***************************************************************************)
(* State.                                                                  *)
(***************************************************************************)
VARIABLES
  \* inputs and results of _generate_cache_key
  k_base, k_params, k_other, k_key, k_key2,
  \* InMemoryCache: self.cache, self.access_times (in dict insertion order)
  cache, access_times,
  \* RedisCache: self.client is set, self.connected, and the server's keys
  client, connected, rstore,
  \* CacheManager: self.use_redis, self.stats
  use_redis, stats,
  \* the clock read by datetime.now() and by the server's expiry
  now,
  \* the last operation and what it returned; the values last written
  last, written, nops,
  \* diversify_results: its arguments, the locals of its loop, its result
  d_candidates, d_max_per_category, d_groups, d_diversified, d_remaining, d_pc,
  d_result,
  \* RecommendationEngine: self.supabase is set, the store answers, its
  \* book_embeddings table and its purchase and interaction rows
  supabase, store_up, book_embeddings, store_rows,
  \* EmbeddingService.cache (the texts it holds), RecommendationEngine.stats
  ecache, e_stats,
  \* the calls in progress, the call that returned last, the number of calls
  \* and store events so far
  frames, e_last, e_events,
  \* the last call of a function of the similarity engine or of the embedding
  \* service: its name, its arguments, what it returned
  f_call,
  \* EmbeddingService: self.cache by cache key, self.model_loaded, and the
  \* call of generate_batch_embeddings in progress
  svc_cache, model_loaded, b_frame

divVars == <<d_candidates, d_max_per_category, d_groups, d_diversified, d_remaining,
             d_pc, d_result>>
keyVars == <<k_base, k_params, k_other, k_key, k_key2>>
cacheVars == <<cache, access_times, client, connected, rstore, use_redis, stats,
               now, last, written, nops>>
engVars == <<supabase, store_up, book_embeddings, store_rows, ecache, e_stats, frames,
             e_last, e_events>>
fnVars == <<f_call>>
batchVars == <<svc_cache, model_loaded, b_frame>>
vars == <<keyVars, cacheVars, divVars, engVars, fnVars, batchVars>>
\* what the actions of one component leave alone
notKey == <<cacheVars, divVars, engVars, fnVars, batchVars>>
notCache == <<keyVars, divVars, engVars, fnVars, batchVars>>
notDiv == <<keyVars, cacheVars, engVars, fnVars, batchVars>>
notFn == <<keyVars, cacheVars, divVars, engVars, batchVars>>
notBatch == <<keyVars, cacheVars, divVars, engVars, fnVars>>

(***************************************************************************)
(* Strings.                                                                *)
(***************************************************************************)
Digits == <<"0", "1", "2", "3", "4", "5", "6", "7", "8", "9">>
HexDigits == <<"0", "1", "2", "3", "4", "5", "6", "7", "8", "9", "a", "b", "c", "d", "e", "f">>

\* Code point of a character (the order Python compares strings by).
Ord(c) ==
  CASE c = " " -> 32
    [] c = "&" -> 38
    [] c = "*" -> 42
    [] c = "0" -> 48 [] c = "1" -> 49 [] c = "2" -> 50 [] c = "3" -> 51
    [] c = "4" -> 52 [] c = "5" -> 53 [] c = "6" -> 54 [] c = "7" -> 55
    [] c = "8" -> 56 [] c = "9" -> 57
    [] c = ":" -> 58
    [] c = "=" -> 61
    [] c = "_" -> 95
    [] c = "a" -> 97 [] c = "b" -> 98 [] c = "c" -> 99 [] c = "d" -> 100
    [] c = "e" -> 101 [] c = "f" -> 102 [] c = "g" -> 103 [] c = "i" -> 105
    [] c = "k" -> 107 [] c = "l" -> 108 [] c = "m" -> 109 [] c = "n" -> 110
    [] c = "o" -> 111 [] c = "p" -> 112 [] c = "r" -> 114 [] c = "s" -> 115
    [] c = "t" -> 116 [] c = "u" -> 117 [] c = "v" -> 118 [] c = "x" -> 120
    [] c = "y" -> 121

\* s < t in Python's string order.
RECURSIVE StrLess(_, _)
StrLess(s, t) ==
  IF t = <<>> THEN FALSE
  ELSE IF s = <<>> THEN TRUE
  ELSE IF Ord(Head(s)) # Ord(Head(t)) THEN Ord(Head(s)) < Ord(Head(t))
  ELSE StrLess(Tail(s), Tail(t))

\* str(n) for a non-negative integer.
RECURSIVE IntToStr(_)
IntToStr(n) ==
  IF n < 10 THEN <<Digits[n + 1]>>
  ELSE IntToStr(n \div 10) \o <<Digits[(n % 10) + 1]>>

\* f"{v}" of a parameter value, which is an int or a str.
FormatValue(v) == IF v.t = "int" THEN IntToStr(v.v) ELSE v.v

IntVal(n) == [t |-> "int", v |-> n]
StrVal(s) == [t |-> "str", v |-> s]
Pad(n) == [i \in 1..n |-> "x"]

(***************************************************************************)
(* CacheManager._generate_cache_key                                        *)
(***************************************************************************)
HashThreshold == 100

\* sorted(params.items()): insertion of one pair into a list sorted by key.
RECURSIVE InsertSorted(_, _)
InsertSorted(p, s) ==
  IF s = <<>> THEN <<p>>
  ELSE IF StrLess(p.k, Head(s).k) THEN <<p>> \o s
  ELSE <<Head(s)>> \o InsertSorted(p, Tail(s))

\* Variant: the pairs are used in the order the caller wrote them.
UnsortedParams(params) == params

RECURSIVE SortParams(_)
SortParams(params) ==
  IF params = <<>> THEN <<>>
  ELSE InsertSorted(Head(params), SortParams(Tail(params)))

\* "&".join([f"{k}={v}" for k, v in pairs])
RECURSIVE JoinParams(_)
JoinParams(pairs) ==
  IF pairs = <<>> THEN <<>>
  ELSE LET one == Head(pairs).k \o <<"=">> \o FormatValue(Head(pairs).v)
       IN  IF Len(pairs) = 1 THEN one
           ELSE one \o <<"&">> \o JoinParams(Tail(pairs))

\* hashlib.md5(s.encode()).hexdigest(): a digest of the whole string, written
\* as 32 hexadecimal digits.  The digest is a position-weighted sum of the
\* code points, folded by halves.
RECURSIVE Checksum(_, _, _)
Checksum(s, lo, hi) ==
  IF lo > hi THEN 0
  ELSE IF lo = hi THEN (lo * Ord(s[lo])) % 65536
  ELSE LET mid == (lo + hi) \div 2
       IN  (Checksum(s, lo, mid) + Checksum(s, mid + 1, hi)) % 65536

Md5Hex(s) ==
  LET h == Checksum(s, 1, Len(s))
      d == <<h % 16, (h \div 16) % 16, (h \div 256) % 16, (h \div 4096) % 16>>
  IN  [i \in 1..32 |-> HexDigits[d[((i - 1) % 4) + 1] + 1]]

\* Variant: a parameter string of exactly HashThreshold characters is hashed too.
GenerateCacheKeyEagerHash(base_key, params) ==
  IF params = <<>> THEN base_key
  ELSE LET sorted_params == SortParams(params)
           param_string == JoinParams(sorted_params)
       IN  IF Len(param_string) >= HashThreshold
           THEN base_key \o <<":">> \o Md5Hex(param_string)
           ELSE base_key \o <<":">> \o param_string

GenerateCacheKey(base_key, params) ==
  IF params = <<>> THEN base_key
  ELSE LET sorted_params == SortParams(params)
           param_string == JoinParams(sorted_params)
       IN  IF Len(param_string) > HashThreshold
           THEN base_key \o <<":">> \o Md5Hex(param_string)
           ELSE base_key \o <<":">> \o param_string

(***************************************************************************)
(* Bind(e, F) is F(e) with e evaluated once: the value of a statement's    *)
(* right-hand side, named for the statements that follow it.               *)
(***************************************************************************)
Bind(e, F(_)) == CHOOSE r \in {F(b) : b \in {e}} : TRUE

(***************************************************************************)
(* InMemoryCache.  A cache state is [cache, access_times]; every method    *)
(* returns the state it leaves and the value it returns.                   *)
(***************************************************************************)
max_size == 2

\* Python's None as a name (a null category or author).
None == "None"

\* Python objects held by the cache or returned by it: None, a str, a list.
PyNone == [py |-> "None", v |-> <<>>]
PyStr(str) == [py |-> "str", v |-> <<str>>]
PyList(items) == [py |-> "list", v |-> items]

\* bool(x) of such an object
Truthy(x) == x.py # "None" /\ x.v # <<>>

EmptyMap == [k \in {} |-> PyNone]

MapRemove(m, key) == [k \in DOMAIN m \ {key} |-> m[k]]
MapPut(m, key, e) == [k \in DOMAIN m \cup {key} |-> IF k = key THEN e ELSE m[k]]

\* access_times is a dict: assignment to a present key keeps its position,
\* assignment to a new key appends.
DictKeys(d) == {d[i].key : i \in DOMAIN d}
DictSet(d, key, t) ==
  IF key \in DictKeys(d)
  THEN [i \in DOMAIN d |-> IF d[i].key = key THEN [key |-> key, at |-> t] ELSE d[i]]
  ELSE Append(d, [key |-> key, at |-> t])
DictPop(d, key) == SelectSeq(d, LAMBDA e : e.key # key)

IMState(c, a) == [cache |-> c, access_times |-> a]

IMDelete(st, key) ==
  IF key \in DOMAIN st.cache
  THEN [st |-> IMState(MapRemove(st.cache, key), DictPop(st.access_times, key)),
        ret |-> TRUE]
  ELSE [st |-> st, ret |-> FALSE]

\* Variant: an entry is still served at the instant it expires.
IMGetServesAtExpiry(st, key, t) ==
  IF key \in DOMAIN st.cache
  THEN IF st.cache[key].expires_at >= t
       THEN [st |-> IMState(st.cache, DictSet(st.access_times, key, t)),
             ret |-> st.cache[key].value]
       ELSE [st |-> IMDelete(st, key).st, ret |-> PyNone]
  ELSE [st |-> st, ret |-> PyNone]

IMGet(st, key, t) ==
  IF key \in DOMAIN st.cache
  THEN IF st.cache[key].expires_at > t
       THEN [st |-> IMState(st.cache, DictSet(st.access_times, key, t)),
             ret |-> st.cache[key].value]
       ELSE [st |-> IMDelete(st, key).st, ret |-> PyNone]
  ELSE [st |-> st, ret |-> PyNone]

IMExists(st, key, t) ==
  Bind(IMGet(st, key, t), LAMBDA r : [st |-> r.st, ret |-> r.ret # PyNone])

\* sorted(self.access_times.items(), key=lambda x: x[1]): a stable sort.
RECURSIVE InsertByTime(_, _)
InsertByTime(e, s) ==
  IF s = <<>> THEN <<e>>
  ELSE IF e.at <= Head(s).at THEN <<e>> \o s
  ELSE <<Head(s)>> \o InsertByTime(e, Tail(s))

\* Variant: the keys are taken in the order of insertion.
SortByTimeAsInserted(d) == d

RECURSIVE SortByTime(_)
SortByTime(d) ==
  IF d = <<>> THEN <<>>
  ELSE Bind(SortByTime(Tail(d)), LAMBDA sorted : InsertByTime(Head(d), sorted))

Max(a, b) == IF a >= b THEN a ELSE b
Min(a, b) == IF a <= b THEN a ELSE b

RECURSIVE IMDeleteAll(_, _)
IMDeleteAll(st, keys) ==
  IF keys = <<>> THEN st
  ELSE Bind(IMDelete(st, Head(keys)).st, LAMBDA st1 : IMDeleteAll(st1, Tail(keys)))

\* Variant: nothing is evicted.
IMEvictNothing(st) == st

IMEvictOldest(st) ==
  IF st.access_times = <<>> THEN st
  ELSE Bind(SortByTime(st.access_times), LAMBDA sorted_keys :
         LET n == Max(1, Len(sorted_keys) \div 10)
             keys_to_remove == [i \in 1..Min(n, Len(sorted_keys)) |-> sorted_keys[i].key]
         IN  IMDeleteAll(st, keys_to_remove))

\* set on a cache built with max_size = size; evicted is what _evict_oldest
\* deleted on the way
IMSetWithin(size, st, key, value, ttl, t) ==
  Bind(IF Cardinality(DOMAIN st.cache) >= size THEN IMEvictOldest(st) ELSE st,
       LAMBDA st1 :
         LET entry == [value |-> value, expires_at |-> t + ttl, created_at |-> t]
         IN  [st |-> IMState(MapPut(st1.cache, key, entry),
                             DictSet(st1.access_times, key, t)),
              ret |-> TRUE,
              evicted |-> DOMAIN st.cache \ DOMAIN st1.cache])

IMSet(st, key, value, ttl, t) == IMSetWithin(max_size, st, key, value, ttl, t)

\* clear(self) takes no argument beyond self: a call that passes any raises
\* TypeError before the body runs.
IMClear(st, args) ==
  IF Len(args) # 0
  THEN [st |-> st, ret |-> PyNone, raised |-> TRUE]
  ELSE [st |-> IMState(EmptyMap, <<>>), ret |-> TRUE, raised |-> FALSE]

(***************************************************************************)
(* RedisCache.  A state is [client, connected, rstore]; rstore is the      *)
(* server's key space, each key with its payload and the time it expires.  *)
(* `fails` says that the client call of this operation raises.             *)
(***************************************************************************)
Prefix == <<"r", "e", "c", "_", "c", "a", "c", "h", "e", ":">>

MakeKey(key) == Prefix \o key

\* json.dumps / json.loads of a payload.
JsonDumps(value) == [json |-> value]
JsonLoads(data) == data.json

\* The keys the server still holds at time t.
LiveKeys(store, t) == {k \in DOMAIN store : store[k].expire_at > t}

\* Glob match of the server's KEYS command: * matches any run of characters.
RECURSIVE GlobMatch(_, _)
GlobMatch(pattern, s) ==
  IF pattern = <<>> THEN s = <<>>
  ELSE IF Head(pattern) = "*"
       THEN \/ GlobMatch(Tail(pattern), s)
            \/ (s # <<>> /\ GlobMatch(pattern, Tail(s)))
       ELSE s # <<>> /\ Head(s) = Head(pattern) /\ GlobMatch(Tail(pattern), Tail(s))

RState(cl, co, store) == [client |-> cl, connected |-> co, rstore |-> store]

RedisGet(st, key, t, fails) ==
  IF ~st.connected \/ ~st.client THEN [st |-> st, ret |-> PyNone, failed |-> TRUE]
  ELSE IF fails THEN [st |-> st, ret |-> PyNone, failed |-> TRUE]
  ELSE IF MakeKey(key) \in LiveKeys(st.rstore, t)
       THEN [st |-> st, ret |-> JsonLoads(st.rstore[MakeKey(key)].data), failed |-> FALSE]
       ELSE [st |-> st, ret |-> PyNone, failed |-> FALSE]

\* SETEX rejects a non-positive expiry with an error reply.
RedisSet(st, key, value, ttl, t, fails) ==
  IF ~st.connected \/ ~st.client THEN [st |-> st, ret |-> FALSE, failed |-> TRUE]
  ELSE IF fails \/ ttl <= 0 THEN [st |-> st, ret |-> FALSE, failed |-> TRUE]
  ELSE [st |-> RState(st.client, st.connected,
                      MapPut(st.rstore, MakeKey(key),
                             [data |-> JsonDumps(value), expire_at |-> t + ttl])),
        ret |-> TRUE, failed |-> FALSE]

RedisDelete(st, key, t, fails) ==
  IF ~st.connected \/ ~st.client THEN [st |-> st, ret |-> FALSE, failed |-> TRUE]
  ELSE IF fails THEN [st |-> st, ret |-> FALSE, failed |-> TRUE]
  ELSE [st |-> RState(st.client, st.connected, MapRemove(st.rstore, MakeKey(key))),
        ret |-> MakeKey(key) \in LiveKeys(st.rstore, t), failed |-> FALSE]

RedisClear(st, pattern, t, fails) ==
  IF ~st.connected \/ ~st.client THEN [st |-> st, ret |-> FALSE, failed |-> TRUE]
  ELSE IF fails THEN [st |-> st, ret |-> FALSE, failed |-> TRUE]
  ELSE LET keys == {k \in LiveKeys(st.rstore, t) : GlobMatch(MakeKey(pattern), k)}
       IN  [st |-> RState(st.client, st.connected,
                          [k \in DOMAIN st.rstore \ keys |-> st.rstore[k]]),
            ret |-> TRUE, failed |-> FALSE]

RedisExists(st, key, t, fails) ==
  IF ~st.connected \/ ~st.client THEN [st |-> st, ret |-> FALSE, failed |-> TRUE]
  ELSE IF fails THEN [st |-> st, ret |-> FALSE, failed |-> TRUE]
  ELSE [st |-> st, ret |-> MakeKey(key) \in LiveKeys(st.rstore, t), failed |-> FALSE]

(***************************************************************************)
(* CacheManager.  Each method takes the two backends' states and the       *)
(* statistics and returns what it leaves of them, with its return value.   *)
(***************************************************************************)
ZeroStats == [hits |-> 0, misses |-> 0, sets |-> 0, deletes |-> 0, errors |-> 0]

Bump(st, field) == [st EXCEPT ![field] = @ + 1]

MgrResult(im, rs, st, ret, failed) ==
  [im |-> im, rs |-> rs, stats |-> st, ret |-> ret, failed |-> failed]

CacheManagerGet(useR, im, rs, st, key, params, t, fails) ==
  Bind(GenerateCacheKey(key, params), LAMBDA cache_key :
    IF useR
    THEN Bind(RedisGet(rs, cache_key, t, fails), LAMBDA r :
           MgrResult(im, r.st, Bump(st, IF r.ret # PyNone THEN "hits" ELSE "misses"),
                     r.ret, r.failed))
    ELSE Bind(IMGet(im, cache_key, t), LAMBDA r :
           MgrResult(r.st, rs, Bump(st, IF r.ret # PyNone THEN "hits" ELSE "misses"),
                     r.ret, FALSE)))

CacheManagerSet(useR, im, rs, st, key, value, ttl, params, t, fails) ==
  Bind(GenerateCacheKey(key, params), LAMBDA cache_key :
    IF useR
    THEN Bind(RedisSet(rs, cache_key, value, ttl, t, fails), LAMBDA r :
           MgrResult(im, r.st, IF r.ret THEN Bump(st, "sets") ELSE st, r.ret, r.failed))
    ELSE Bind(IMSet(im, cache_key, value, ttl, t), LAMBDA r :
           MgrResult(r.st, rs, IF r.ret THEN Bump(st, "sets") ELSE st, r.ret, FALSE)))

CacheManagerDelete(useR, im, rs, st, key, params, t, fails) ==
  Bind(GenerateCacheKey(key, params), LAMBDA cache_key :
    IF useR
    THEN Bind(RedisDelete(rs, cache_key, t, fails), LAMBDA r :
           MgrResult(im, r.st, IF r.ret THEN Bump(st, "deletes") ELSE st, r.ret, r.failed))
    ELSE Bind(IMDelete(im, cache_key), LAMBDA r :
           MgrResult(r.st, rs, IF r.ret THEN Bump(st, "deletes") ELSE st, r.ret, FALSE)))

CacheManagerExists(useR, im, rs, st, key, params, t, fails) ==
  Bind(GenerateCacheKey(key, params), LAMBDA cache_key :
    IF useR
    THEN Bind(RedisExists(rs, cache_key, t, fails), LAMBDA r :
           MgrResult(im, r.st, st, r.ret, r.failed))
    ELSE Bind(IMExists(im, cache_key, t), LAMBDA r :
           MgrResult(r.st, rs, st, r.ret, FALSE)))

\* self.cache.clear(pattern): the pattern is passed to either backend.
CacheManagerClear(useR, im, rs, st, pattern, t, fails) ==
  IF useR
  THEN Bind(RedisClear(rs, pattern, t, fails), LAMBDA r :
         MgrResult(im, r.st, st, r.ret, r.failed))
  ELSE Bind(IMClear(im, <<pattern>>), LAMBDA r :
         IF r.raised
         THEN MgrResult(im, rs, Bump(st, "errors"), FALSE, FALSE)
         ELSE MgrResult(r.st, rs, st, r.ret, FALSE))

(***************************************************************************)
(* SimilarityEngine.cosine_similarity.  Vectors are sequences of integers; *)
(* a score in [0, 1] is kept in thousandths, rounded down.                 *)
(***************************************************************************)
Scale == 1000

\* A vector that is None.
NoVec == <<"None">>

RECURSIVE Dot(_, _)
Dot(a, b) == IF a = <<>> THEN 0 ELSE Head(a) * Head(b) + Dot(Tail(a), Tail(b))

\* The largest s in lo..hi with s^2 * den <= Scale^2 * num (lo satisfies it).
RECURSIVE RatioSqrt(_, _, _, _)
RatioSqrt(num, den, lo, hi) ==
  IF lo >= hi THEN lo
  ELSE Bind((lo + hi + 1) \div 2, LAMBDA mid :
         IF mid * mid * den <= Scale * Scale * num
         THEN RatioSqrt(num, den, mid, hi)
         ELSE Bind(mid - 1, LAMBDA below : RatioSqrt(num, den, lo, below)))

\* Variant: the dot product is divided by the first vector's norm only.
CosineSimilarityOneNorm(vector_a, vector_b) ==
  IF vector_a = NoVec \/ vector_b = NoVec THEN 0
  ELSE IF Len(vector_a) = 0 \/ Len(vector_b) = 0 THEN 0
  ELSE IF Len(vector_a) # Len(vector_b) THEN 0
  ELSE Bind(Dot(vector_a, vector_b), LAMBDA dot :
       Bind(Dot(vector_a, vector_a), LAMBDA na :
       Bind(Dot(vector_b, vector_b), LAMBDA nb :
         IF na = 0 \/ nb = 0 THEN 0
         ELSE IF dot <= 0 THEN 0
         ELSE Bind(dot * dot, LAMBDA num :
              Bind(na * na, LAMBDA den : RatioSqrt(num, den, 0, Scale))))))

CosineSimilarity(vector_a, vector_b) ==
  IF vector_a = NoVec \/ vector_b = NoVec THEN 0
  ELSE IF Len(vector_a) = 0 \/ Len(vector_b) = 0 THEN 0
  ELSE IF Len(vector_a) # Len(vector_b) THEN 0
  ELSE Bind(Dot(vector_a, vector_b), LAMBDA dot :
       Bind(Dot(vector_a, vector_a), LAMBDA na :
       Bind(Dot(vector_b, vector_b), LAMBDA nb :
         IF na = 0 \/ nb = 0 THEN 0
         ELSE IF dot <= 0 THEN 0
         ELSE Bind(dot * dot, LAMBDA num :
              Bind(na * nb, LAMBDA den : RatioSqrt(num, den, 0, Scale))))))

\* [0.0] * n
Zeros(n) == [i \in 1..n |-> 0]

\* Variant: a width that disagrees gives the empty list.
BatchCosineSimilarityDropsAll(query_vector, candidate_vectors) ==
  IF candidate_vectors = <<>> THEN <<>>
  ELSE IF \E i \in DOMAIN candidate_vectors :
            \/ candidate_vectors[i] = NoVec
            \/ Len(candidate_vectors[i]) # Len(candidate_vectors[1])
       THEN Zeros(Len(candidate_vectors))
  ELSE IF query_vector = NoVec THEN Zeros(Len(candidate_vectors))
  ELSE IF Len(query_vector) = 0 THEN Zeros(Len(candidate_vectors))
  ELSE IF Len(candidate_vectors[1]) # Len(query_vector) THEN <<>>
  ELSE [i \in DOMAIN candidate_vectors |->
          CosineSimilarity(query_vector, candidate_vectors[i])]

\* batch_cosine_similarity.  np.array of candidates that are not all of one
\* width (or of which one is None) raises, as does len() of a query that is
\* None; the except clause answers with zeros.
BatchCosineSimilarity(query_vector, candidate_vectors) ==
  IF candidate_vectors = <<>> THEN <<>>
  ELSE IF \E i \in DOMAIN candidate_vectors :
            \/ candidate_vectors[i] = NoVec
            \/ Len(candidate_vectors[i]) # Len(candidate_vectors[1])
       THEN Zeros(Len(candidate_vectors))
  ELSE IF query_vector = NoVec THEN Zeros(Len(candidate_vectors))
  ELSE IF Len(query_vector) = 0 THEN Zeros(Len(candidate_vectors))
  ELSE IF Len(candidate_vectors[1]) # Len(query_vector)
       THEN Zeros(Len(candidate_vectors))
  ELSE [i \in DOMAIN candidate_vectors |->
          CosineSimilarity(query_vector, candidate_vectors[i])]

(***************************************************************************)
(* SimilarityEngine.calculate_user_book_affinity.  Strings compared with   *)
(* lower() and `in` are names of the catalogue, folded and matched by      *)
(* tables.                                                                 *)
(***************************************************************************)
\* str.lower() on the names of the catalogue
Lower(name) ==
  CASE name = "Romance" -> "romance"
    [] name = "Mystery" -> "mystery"
    [] name = "Ann" -> "ann"
    [] name = "Bob" -> "bob"
    [] name = "A" -> "a"
    [] name = "B" -> "b"
    [] OTHER -> name

\* a in b, for folded names of the catalogue: none is part of another
IsSubstring(a, b) == a = b

\* The first favourite that matches exactly gives 1.0 and stops the loop; a
\* partial match before it raises the match to `partial`.
RECURSIVE BestMatch(_, _, _, _)
BestMatch(favorites, name, partial, acc) ==
  IF favorites = <<>> THEN acc
  ELSE IF Lower(Head(favorites)) = name THEN Scale
  ELSE IF IsSubstring(Lower(Head(favorites)), name) \/ IsSubstring(name, Lower(Head(favorites)))
       THEN Bind(Max(acc, partial), LAMBDA best : BestMatch(Tail(favorites), name, partial, best))
  ELSE BestMatch(Tail(favorites), name, partial, acc)

\* A profile built by _build_user_profile; the {} returned after an exception
\* has no keys.
EmptyProfile == [has_keys |-> FALSE, preference_embedding |-> NoVec,
                 favorite_categories |-> <<>>, favorite_authors |-> <<>>,
                 interaction_count |-> 0]

\* A key that a dict does not have: Missing for a category or an author,
\* Absent for a vector or a list.
Missing == "<missing>"
Absent == <<Missing>>

\* "key" in user_profile
InProfile(user_profile, value) == user_profile.has_keys /\ value # Absent

\* A term is blended when its key is in the profile and its key is in the
\* book, whatever the values: a preference_embedding that is None counts with
\* similarity 0.  lower() of a null category or author raises, which makes
\* the affinity 0.  The terms are in thousandths and their weights in tenths;
\* the affinity, the weighted sum over the sum of the weights blended, is in
\* ten-thousandths.
CalculateUserBookAffinity(user_profile, book, embedding) ==
  LET content == InProfile(user_profile, user_profile.preference_embedding)
                   /\ embedding # Absent
      category == InProfile(user_profile, user_profile.favorite_categories)
                    /\ book.category # Missing
      author == InProfile(user_profile, user_profile.favorite_authors)
                  /\ book.author # Missing
  IN  IF (category /\ book.category = None) \/ (author /\ book.author = None) THEN 0
      ELSE Bind(IF content
                THEN CosineSimilarity(user_profile.preference_embedding, embedding)
                ELSE 0, LAMBDA content_sim :
           Bind(IF category
                THEN BestMatch(user_profile.favorite_categories, Lower(book.category),
                               700, 0)
                ELSE 0, LAMBDA category_match :
           Bind(IF author
                THEN BestMatch(user_profile.favorite_authors, Lower(book.author), 800, 0)
                ELSE 0, LAMBDA author_match :
           Bind((IF content THEN 5 ELSE 0) + (IF category THEN 3 ELSE 0)
                  + (IF author THEN 2 ELSE 0), LAMBDA total_factors :
             IF total_factors > 0
             THEN ((content_sim * 5 + category_match * 3 + author_match * 2) * 10)
                    \div total_factors
             ELSE 0))))

(***************************************************************************)
(* SimilarityEngine.diversify_results.  A candidate is a record with a     *)
(* category and a similarity_score; a candidate whose dict has no          *)
(* "category" key has category Missing, one whose category is null has     *)
(* category None (Missing is defined with the affinity).                   *)
(***************************************************************************)
\* candidate.get("category", "uncategorized")
GroupCategory(item) == IF item.category = Missing THEN "uncategorized" ELSE item.category

\* item.get("category")
GetCategory(item) == IF item.category = Missing THEN None ELSE item.category

\* The grouping loop: a dict category -> list, in order of first appearance.
RECURSIVE GroupByCategory(_, _)
GroupByCategory(candidates, groups) ==
  IF candidates = <<>> THEN groups
  ELSE LET c == GroupCategory(Head(candidates))
           present == \E i \in DOMAIN groups : groups[i].category = c
       IN  Bind(IF present
                THEN [i \in DOMAIN groups |->
                        IF groups[i].category = c
                        THEN [groups[i] EXCEPT !.items = Append(@, Head(candidates))]
                        ELSE groups[i]]
                ELSE Append(groups, [category |-> c, items |-> <<Head(candidates)>>]),
                LAMBDA added : GroupByCategory(Tail(candidates), added))

\* max(items, key=score): the first item with the largest score.
BestIndex(items) ==
  CHOOSE i \in DOMAIN items :
    /\ \A j \in DOMAIN items : items[j].similarity_score <= items[i].similarity_score
    /\ \A j \in 1..(i - 1) : items[j].similarity_score < items[i].similarity_score

RemoveAt(items, i) == SubSeq(items, 1, i - 1) \o SubSeq(items, i + 1, Len(items))

\* items.remove(best_item): the first item equal to it goes.
RemoveFirstEqual(items, x) ==
  RemoveAt(items, CHOOSE i \in DOMAIN items :
                    items[i] = x /\ \A j \in 1..(i - 1) : items[j] # x)

CountIn(seq, P(_)) == Cardinality({i \in DOMAIN seq : P(seq[i])})

\* sum(1 for item in diversified if item.get("category") == category)
CategoryCount(diversified, category) ==
  CountIn(diversified, LAMBDA item : GetCategory(item) = category)

\* The body that counts a selection and selects nothing.
DivVisitCountOnly(loc, i, max_per_category) ==
  IF loc.groups[i].items = <<>> \/ loc.remaining <= 0 THEN loc
  ELSE [loc EXCEPT !.added = @ + 1]

\* The body of the for loop for the i-th category, on the loop's locals
\* [groups, diversified, remaining, added].
DivVisit(loc, i, max_per_category) ==
  LET items == loc.groups[i].items
  IN  IF items = <<>> \/ loc.remaining <= 0 THEN loc
      ELSE Bind(items[BestIndex(items)], LAMBDA best_item :
           Bind(Append(loc.diversified, best_item), LAMBDA diversified :
             LET rest == RemoveFirstEqual(items, best_item)
                 capped == CategoryCount(diversified, loc.groups[i].category)
                             >= max_per_category
             IN  [groups |-> [loc.groups EXCEPT ![i].items = IF capped THEN <<>> ELSE rest],
                  diversified |-> diversified,
                  remaining |-> loc.remaining - 1,
                  added |-> loc.added + 1]))

RECURSIVE DivVisitFrom(_, _, _)
DivVisitFrom(loc, i, max_per_category) ==
  IF i > Len(loc.groups) THEN loc
  ELSE Bind(DivVisit(loc, i, max_per_category), LAMBDA visited :
         Bind(i + 1, LAMBDA next : DivVisitFrom(visited, next, max_per_category)))

\* One pass of the while loop over all the categories.
DivPass(groups, diversified, remaining, max_per_category) ==
  DivVisitFrom([groups |-> groups, diversified |-> diversified,
                remaining |-> remaining, added |-> 0], 1, max_per_category)

\* remaining_slots > 0 and any(category_groups.values())
DivLoopCondition(groups, remaining) ==
  remaining > 0 /\ \E i \in DOMAIN groups : groups[i].items # <<>>

\* list.sort(key=score, reverse=True): stable, descending.
RECURSIVE InsertByScore(_, _)
InsertByScore(x, s) ==
  IF s = <<>> THEN <<x>>
  ELSE IF x.similarity_score >= Head(s).similarity_score THEN <<x>> \o s
  ELSE <<Head(s)>> \o InsertByScore(x, Tail(s))

\* Variant: the list left in the order of selection.
KeepSelectionOrder(items) == items

RECURSIVE SortByScoreDesc(_)
SortByScoreDesc(items) ==
  IF items = <<>> THEN <<>>
  ELSE Bind(SortByScoreDesc(Tail(items)), LAMBDA sorted : InsertByScore(Head(items), sorted))

RECURSIVE DivLoop(_, _, _, _)
DivLoop(groups, diversified, remaining, max_per_category) ==
  IF ~DivLoopCondition(groups, remaining) THEN diversified
  ELSE Bind(DivPass(groups, diversified, remaining, max_per_category), LAMBDA loc :
         IF loc.added = 0 THEN loc.diversified
         ELSE DivLoop(loc.groups, loc.diversified, loc.remaining, max_per_category))

DiversifyResults(candidates, max_per_category) ==
  IF candidates = <<>> THEN candidates
  ELSE Bind(GroupByCategory(candidates, <<>>), LAMBDA category_groups :
       Bind(DivLoop(category_groups, <<>>, Len(candidates), max_per_category),
            LAMBDA diversified : SortByScoreDesc(diversified)))

(***************************************************************************)
(* The catalog store (the tables the engine queries) and the embedding     *)
(* provider.  The books table is fixed; book_embeddings and the            *)
(* interaction rows change.                                                *)
(***************************************************************************)
BookOrder == <<"b1", "b2", "b3">>
Books == {BookOrder[i] : i \in DOMAIN BookOrder}

BooksTable(id) ==
  CASE id = "b1" -> [id |-> "b1", category |-> "Romance", author |-> "Ann"]
    [] id = "b2" -> [id |-> "b2", category |-> "Romance", author |-> "Bob"]
    [] id = "b3" -> [id |-> "b3", category |-> "Mystery", author |-> "Ann"]

NoBook == [id |-> None, category |-> None, author |-> None]

\* What the model encodes for a text: the text of a book row, or the text of
\* the book a user interacted with.
BookText(id) == [kind |-> "book", book |-> id]
PreferenceText(id) == [kind |-> "pref", book |-> id]

ProviderVector(text) ==
  CASE text.book = "b1" -> <<1, 0>>
    [] text.book = "b2" -> <<4, 3>>
    [] text.book = "b3" -> <<3, 4>>
    [] OTHER -> <<1, 1>>

\* _get_book_data
GetBookData(sb, up, book_id) ==
  IF ~sb THEN NoBook
  ELSE IF ~up THEN NoBook
  ELSE IF book_id \in Books THEN BooksTable(book_id)
  ELSE NoBook

InSeq(x, seq) == \E i \in DOMAIN seq : seq[i] = x

\* _get_candidate_books: the rows in table order, without the excluded ids
\* and categories.
\* Variant: exclude_book_ids is not applied.
GetCandidateBooksAnyId(sb, up, exclude_book_id, exclude_book_ids, exclude_categories) ==
  IF ~sb THEN <<>>
  ELSE IF ~up THEN <<>>
  ELSE LET keep(id) == /\ id # exclude_book_id
                       /\ ~InSeq(BooksTable(id).category, exclude_categories)
       IN  Bind(SelectSeq(BookOrder, keep), LAMBDA ids :
                  [i \in DOMAIN ids |-> BooksTable(ids[i])])

GetCandidateBooks(sb, up, exclude_book_id, exclude_book_ids, exclude_categories) ==
  IF ~sb THEN <<>>
  ELSE IF ~up THEN <<>>
  ELSE LET keep(id) == /\ id # exclude_book_id
                       /\ ~InSeq(id, exclude_book_ids)
                       /\ ~InSeq(BooksTable(id).category, exclude_categories)
       IN  Bind(SelectSeq(BookOrder, keep), LAMBDA ids :
                  [i \in DOMAIN ids |-> BooksTable(ids[i])])

\* The fixed importance weight of an interaction kind, in tenths.
Weight10(interaction_type) ==
  CASE interaction_type = "purchase" -> 30
    [] interaction_type = "like" -> 20
    [] interaction_type = "bookmark" -> 20
    [] interaction_type = "click" -> 10
    [] interaction_type = "view" -> 5
    [] OTHER -> 10

\* _get_user_interactions: the user's succeeded purchases, then the user's
\* click, view, like and bookmark rows, each with its book and weight.
GetUserInteractions(sb, up, rows, user_id) ==
  IF ~sb THEN <<>>
  ELSE IF ~up THEN <<>>
  ELSE LET mine(kinds) == SelectSeq(rows, LAMBDA r : r.user_id = user_id
                                                     /\ r.interaction_type \in kinds)
       IN  Bind(mine({"purchase"}) \o mine({"click", "view", "like", "bookmark"}),
                LAMBDA found :
                  [i \in DOMAIN found |->
                     [book_id |-> found[i].book_id,
                      book |-> BooksTable(found[i].book_id),
                      interaction_type |-> found[i].interaction_type,
                      days_old |-> found[i].days_old,
                      aware |-> found[i].aware,
                      weight |-> Weight10(found[i].interaction_type)]])

\* _get_user_purchased_books
GetUserPurchasedBooks(sb, up, rows, user_id) ==
  IF ~sb THEN <<>>
  ELSE IF ~up THEN <<>>
  ELSE Bind(SelectSeq(rows, LAMBDA r : r.user_id = user_id
                                       /\ r.interaction_type = "purchase"),
            LAMBDA mine : [i \in DOMAIN mine |-> mine[i].book_id])

(***************************************************************************)
(* RecommendationEngine._build_user_profile.  Weights are integers over    *)
(* the denominator 36500: an importance weight in tenths times a time      *)
(* weight in 3650ths.                                                      *)
(***************************************************************************)
WeightDenominator == 36500

\* max(0.1, 1.0 - days_old * 0.1 / 365), in 3650ths
TimeWeight(days_old) == Max(365, 3650 - days_old)

FinalWeight(interaction) == interaction.weight * TimeWeight(interaction.days_old)

\* d[name] = d.get(name, 0) + w on a dict kept in insertion order
TallyAdd(d, name, w) ==
  IF \E i \in DOMAIN d : d[i].name = name
  THEN [i \in DOMAIN d |-> IF d[i].name = name THEN [name |-> name, w |-> d[i].w + w] ELSE d[i]]
  ELSE Append(d, [name |-> name, w |-> w])

Repeat(x, n) == [i \in 1..n |-> x]

\* The for loop over the interactions, on [categories, authors, texts].
RECURSIVE ProfileTallies(_, _)
ProfileTallies(interactions, acc) ==
  IF interactions = <<>> THEN acc
  ELSE Bind(Head(interactions), LAMBDA it :
       Bind(FinalWeight(it), LAMBDA fw :
         LET cats == IF it.book.category # None
                     THEN TallyAdd(acc.categories, it.book.category, fw)
                     ELSE acc.categories
             auts == IF it.book.author # None
                     THEN TallyAdd(acc.authors, it.book.author, fw)
                     ELSE acc.authors
             texts == IF 2 * fw > WeightDenominator
                      THEN acc.texts \o Repeat(PreferenceText(it.book_id),
                                               fw \div WeightDenominator)
                      ELSE acc.texts
         IN  Bind([categories |-> cats, authors |-> auts, texts |-> texts],
                  LAMBDA next : ProfileTallies(Tail(interactions), next))))

\* sorted(d.items(), key=lambda x: x[1], reverse=True): stable, descending.
RECURSIVE InsertByWeight(_, _)
InsertByWeight(x, s) ==
  IF s = <<>> THEN <<x>>
  ELSE IF x.w >= Head(s).w THEN <<x>> \o s
  ELSE <<Head(s)>> \o InsertByWeight(x, Tail(s))

RECURSIVE SortByWeightDesc(_)
SortByWeightDesc(d) ==
  IF d = <<>> THEN <<>>
  ELSE Bind(SortByWeightDesc(Tail(d)), LAMBDA sorted : InsertByWeight(Head(d), sorted))

TopNames(d, n) ==
  Bind(SortByWeightDesc(d), LAMBDA sorted :
         [i \in 1..Min(n, Len(sorted)) |-> sorted[i].name])

RECURSIVE VectorSum(_)
VectorSum(vs) ==
  IF vs = <<>> THEN <<0, 0>>
  ELSE Bind(VectorSum(Tail(vs)), LAMBDA r : <<Head(vs)[1] + r[1], Head(vs)[2] + r[2]>>)

RECURSIVE GCD(_, _)
GCD(a, b) == IF b = 0 THEN a ELSE Bind(a % b, LAMBDA r : GCD(b, r))

\* generate_user_preference_embedding: every text is embedded twice (the
\* weight of a "purchase") and the embeddings are averaged.  The mean is kept
\* as the sum of the embeddings in lowest terms, which has the same direction.
PreferenceEmbedding(texts) ==
  Bind(VectorSum([i \in DOMAIN texts |-> <<2 * ProviderVector(texts[i])[1],
                                            2 * ProviderVector(texts[i])[2]>>]),
       LAMBDA total :
         Bind(GCD(total[1], total[2]), LAMBDA g :
           IF g = 0 THEN total ELSE <<total[1] \div g, total[2] \div g>>))

\* A timestamp with a UTC offset cannot be subtracted from datetime.now().
TimestampRaises(interactions) == \E i \in DOMAIN interactions : interactions[i].aware

\* The profile, given the tallies and the preference embedding (NoVec when no
\* text was collected).
MakeProfile(interactions, tallies, preference_embedding) ==
  [has_keys |-> TRUE,
   preference_embedding |-> preference_embedding,
   favorite_categories |-> TopNames(tallies.categories, 5),
   favorite_authors |-> TopNames(tallies.authors, 3),
   interaction_count |-> Len(interactions)]

(***************************************************************************)
(* Inputs of the key-generation specification.                             *)
(***************************************************************************)
KeyBases == {<<"u", "p">>, <<"r", "e", "c">>}
ParamNames == {<<"a">>, <<"b">>, <<"a", "b">>}
ParamValues == {IntVal(1), IntVal(10), StrVal(<<"v">>),
                StrVal(Pad(46)), StrVal(Pad(47)), StrVal(Pad(98)), StrVal(Pad(99))}
MaxParams == 2

\* kwargs in the order the caller wrote them: distinct names.
ParamLists ==
  {<<>>}
  \cup {<<[k |-> n, v |-> v]>> : n \in ParamNames, v \in ParamValues}
  \cup {<<[k |-> n1, v |-> v1], [k |-> n2, v |-> v2]>> :
          n1 \in ParamNames, n2 \in ParamNames, v1 \in ParamValues, v2 \in ParamValues}

DistinctNames(ps) == \A i, j \in DOMAIN ps : i # j => ps[i].k # ps[j].k

Reorderings(ps) ==
  {qs \in ParamLists : Len(qs) = Len(ps)
                       /\ {qs[i] : i \in DOMAIN qs} = {ps[i] : i \in DOMAIN ps}}

NoKey == <<"?">>

KeyInit ==
  /\ k_base \in KeyBases
  /\ k_params \in {ps \in ParamLists : Len(ps) <= MaxParams /\ DistinctNames(ps)}
  /\ k_other = k_params
  /\ k_key = NoKey
  /\ k_key2 = NoKey

\* _generate_cache_key(base, **params)
KeyGenerate ==
  /\ UNCHANGED notKey
  /\ k_key = NoKey
  /\ k_key' = GenerateCacheKey(k_base, k_params)
  /\ UNCHANGED <<k_base, k_params, k_other, k_key2>>

\* _generate_cache_key(base, **params) with the same pairs written in
\* another order.
KeyGenerateReordered ==
  /\ UNCHANGED notKey
  /\ k_key2 = NoKey
  /\ \E qs \in Reorderings(k_params) :
       /\ k_other' = qs
       /\ k_key2' = GenerateCacheKey(k_base, qs)
  /\ UNCHANGED <<k_base, k_params, k_key>>

KeyNext == KeyGenerate \/ KeyGenerateReordered

(***************************************************************************)
(* The cache specification: a CacheManager over either backend, driven by  *)
(* its callers and by the clock.                                           *)
(***************************************************************************)
CacheBases == {<<"u", "p">>}
CacheParams == {<<>>, <<[k |-> <<"a">>, v |-> IntVal(1)]>>, <<[k |-> <<"a">>, v |-> IntVal(2)]>>}
CacheValues == {PyStr("v1"), PyStr("v2")}
TTLs == {1, 2}
Patterns == {<<"*">>, <<"u", "p", ":", "*">>}

IM == IMState(cache, access_times)
RS == RState(client, connected, rstore)

NoEntry == [value |-> PyNone, at |-> 0, ttl |-> 0]

NoOp == [op |-> "none", key |-> <<>>, pattern |-> <<>>, ret |-> PyNone, at |-> 0,
         failed |-> FALSE, propagated |-> FALSE, errors_before |-> 0,
         full_before |-> FALSE, tracking |-> FALSE, tracked |-> NoEntry,
         evicted |-> {}]

KeyIdle ==
  /\ k_base = <<>>
  /\ k_params = <<>>
  /\ k_other = <<>>
  /\ k_key = NoKey
  /\ k_key2 = NoKey

CacheIdle ==
  /\ cache = EmptyMap
  /\ access_times = <<>>
  /\ client = FALSE
  /\ connected = FALSE
  /\ rstore = EmptyMap
  /\ use_redis = FALSE
  /\ stats = ZeroStats
  /\ now = 0
  /\ last = NoOp
  /\ written = EmptyMap
  /\ nops = 0

CacheInit ==
  /\ cache = EmptyMap
  /\ access_times = <<>>
  /\ client = FALSE
  /\ connected = FALSE
  /\ rstore = EmptyMap
  /\ use_redis \in BOOLEAN
  /\ stats = ZeroStats
  /\ now = 0
  /\ last = NoOp
  /\ written = EmptyMap
  /\ nops = 0

\* The client call of an operation can only raise when there is a call.
MayFail == {FALSE} \cup {f \in {TRUE} : use_redis /\ client /\ connected}

Apply(r) ==
  /\ cache' = r.im.cache
  /\ access_times' = r.im.access_times
  /\ client' = r.rs.client
  /\ connected' = r.rs.connected
  /\ rstore' = r.rs.rstore
  /\ stats' = r.stats
  /\ nops' = nops + 1
  /\ UNCHANGED <<use_redis, now>>

Record(op, key, pattern, r) ==
  [op |-> op, key |-> key, pattern |-> pattern, ret |-> r.ret, at |-> now,
   failed |-> r.failed, propagated |-> FALSE, errors_before |-> stats.errors,
   full_before |-> Cardinality(DOMAIN cache) >= max_size,
   tracking |-> key \in DOMAIN written,
   tracked |-> IF key \in DOMAIN written THEN written[key] ELSE NoEntry,
   evicted |-> {}]

\* CacheManager.initialize: connect() sets the client and pings the server.
Initialize ==
  /\ UNCHANGED notCache
  /\ use_redis
  /\ ~connected
  /\ \E ping_ok \in BOOLEAN :
       /\ client' = TRUE
       /\ connected' = ping_ok
  /\ last' = [NoOp EXCEPT !.op = "initialize"]
  /\ UNCHANGED <<cache, access_times, rstore, use_redis, stats, now, written, nops>>

\* CacheManager.cleanup: disconnect() closes the client.
Cleanup ==
  /\ UNCHANGED notCache
  /\ use_redis
  /\ client
  /\ connected
  /\ connected' = FALSE
  /\ last' = [NoOp EXCEPT !.op = "cleanup"]
  /\ UNCHANGED <<cache, access_times, client, rstore, use_redis, stats, now, written, nops>>

MgrGet ==
  /\ UNCHANGED notCache
  /\ nops < MaxOps
  /\ \E key \in CacheBases, params \in CacheParams, fails \in MayFail :
       LET r == CacheManagerGet(use_redis, IM, RS, stats, key, params, now, fails)
           ck == GenerateCacheKey(key, params)
       IN  /\ Apply(r)
           /\ last' = Record("get", ck, <<>>, r)
           /\ written' = IF r.ret = PyNone THEN MapRemove(written, ck) ELSE written

MgrSet ==
  /\ UNCHANGED notCache
  /\ nops < MaxOps
  /\ \E key \in CacheBases, params \in CacheParams, fails \in MayFail,
        value \in CacheValues, ttl \in TTLs :
       LET r == CacheManagerSet(use_redis, IM, RS, stats, key, value, ttl, params, now, fails)
           ck == GenerateCacheKey(key, params)
           evicted == DOMAIN cache \ DOMAIN r.im.cache
       IN  /\ Apply(r)
           /\ last' = Record("set", ck, <<>>, r)
           /\ written' =
                IF use_redis THEN written
                ELSE MapPut([k \in DOMAIN written \ evicted |-> written[k]], ck,
                            [value |-> value, at |-> now, ttl |-> ttl])

MgrDelete ==
  /\ UNCHANGED notCache
  /\ nops < MaxOps
  /\ \E key \in CacheBases, params \in CacheParams, fails \in MayFail :
       LET r == CacheManagerDelete(use_redis, IM, RS, stats, key, params, now, fails)
           ck == GenerateCacheKey(key, params)
       IN  /\ Apply(r)
           /\ last' = Record("delete", ck, <<>>, r)
           /\ written' = MapRemove(written, ck)

MgrExists ==
  /\ UNCHANGED notCache
  /\ nops < MaxOps
  /\ \E key \in CacheBases, params \in CacheParams, fails \in MayFail :
       LET r == CacheManagerExists(use_redis, IM, RS, stats, key, params, now, fails)
           ck == GenerateCacheKey(key, params)
       IN  /\ Apply(r)
           /\ last' = Record("exists", ck, <<>>, r)
           /\ written' = IF r.ret THEN written ELSE MapRemove(written, ck)

MgrClear ==
  /\ UNCHANGED notCache
  /\ nops < MaxOps
  /\ \E pattern \in Patterns, fails \in MayFail :
       LET r == CacheManagerClear(use_redis, IM, RS, stats, pattern, now, fails)
       IN  /\ Apply(r)
           /\ last' = Record("clear", <<>>, pattern, r)
           /\ written' = [k \in DOMAIN written \cap DOMAIN r.im.cache |-> written[k]]

\* InMemoryCache.clear() called on the backend itself.
InMemoryClear ==
  /\ UNCHANGED notCache
  /\ nops < MaxOps
  /\ ~use_redis
  /\ LET r == IMClear(IM, <<>>)
     IN  /\ cache' = r.st.cache
         /\ access_times' = r.st.access_times
         /\ last' = [NoOp EXCEPT !.op = "imclear", !.ret = r.ret, !.at = now]
  /\ written' = EmptyMap
  /\ nops' = nops + 1
  /\ UNCHANGED <<client, connected, rstore, use_redis, stats, now>>

Tick ==
  /\ UNCHANGED notCache
  /\ now < MaxTime
  /\ now' = now + 1
  /\ UNCHANGED <<cache, access_times, client, connected, rstore, use_redis, stats,
                 last, written, nops>>

CacheNext ==
  \/ Initialize
  \/ Cleanup
  \/ MgrGet
  \/ MgrSet
  \/ MgrDelete
  \/ MgrExists
  \/ MgrClear
  \/ InMemoryClear
  \/ Tick

(***************************************************************************)
(* The user cache specification: the manager's methods for user profiles   *)
(* and recommendation lists, and invalidate_user_cache.                    *)
(***************************************************************************)
UserProfileBase == <<"u", "s", "e", "r", "_", "p", "r", "o", "f", "i", "l", "e">>
RecommendationsBase == <<"r", "e", "c", "o", "m", "m", "e", "n", "d", "a", "t", "i", "o", "n", "s">>
UserIdName == <<"u", "s", "e", "r", "_", "i", "d">>
TypeName == <<"t", "y", "p", "e">>
CacheUsers == {<<"u", "1">>, <<"u", "2">>}
RecTypes == {<<"s", "i", "m", "i", "l", "a", "r">>, <<"t", "r", "e", "n", "d", "i", "n", "g">>}

\* the keyword arguments of the two families of keys, in the order written
UserProfileParams(user_id) == <<[k |-> UserIdName, v |-> StrVal(user_id)]>>
RecommendationsParams(user_id, rec_type) ==
  <<[k |-> UserIdName, v |-> StrVal(user_id)], [k |-> TypeName, v |-> StrVal(rec_type)]>>

\* ttl defaults: 3600 s for profiles, 1800 s for recommendations
ProfileTTL == 2
RecommendationsTTL == 1

CacheUserProfile(useR, im, rs, st, user_id, profile, t, fails) ==
  CacheManagerSet(useR, im, rs, st, UserProfileBase, profile, ProfileTTL,
                  UserProfileParams(user_id), t, fails)

GetUserProfile(useR, im, rs, st, user_id, t, fails) ==
  CacheManagerGet(useR, im, rs, st, UserProfileBase, UserProfileParams(user_id), t, fails)

CacheRecommendations(useR, im, rs, st, user_id, rec_type, recommendations, t, fails) ==
  CacheManagerSet(useR, im, rs, st, RecommendationsBase, recommendations,
                  RecommendationsTTL, RecommendationsParams(user_id, rec_type), t, fails)

GetRecommendations(useR, im, rs, st, user_id, rec_type, t, fails) ==
  CacheManagerGet(useR, im, rs, st, RecommendationsBase,
                  RecommendationsParams(user_id, rec_type), t, fails)

\* f"user_profile:*user_id={user_id}*" and f"recommendations:*user_id={user_id}*"
UserPatterns(user_id) ==
  <<UserProfileBase \o <<":", "*">> \o UserIdName \o <<"=">> \o user_id \o <<"*">>,
    RecommendationsBase \o <<":", "*">> \o UserIdName \o <<"=">> \o user_id \o <<"*">>>>

\* for pattern in patterns: await self.clear(pattern); the return values are
\* dropped.  fails[i] says that the client call of the i-th clear raises.
InvalidateUserCache(useR, im, rs, st, user_id, t, fails) ==
  Bind(UserPatterns(user_id), LAMBDA patterns :
    Bind(CacheManagerClear(useR, im, rs, st, patterns[1], t, fails[1]), LAMBDA r1 :
      Bind(CacheManagerClear(useR, r1.im, r1.rs, r1.stats, patterns[2], t, fails[2]),
           LAMBDA r2 : MgrResult(r2.im, r2.rs, r2.stats, PyNone, r1.failed \/ r2.failed))))

MaxUserOps == 3

UserRecord(op, user_id, r) == [Record(op, user_id, <<>>, r) EXCEPT !.tracking = FALSE]

UserCacheProfile ==
  /\ UNCHANGED notCache
  /\ nops < MaxUserOps
  /\ \E user_id \in CacheUsers, profile \in CacheValues, fails \in MayFail :
       \E r \in {CacheUserProfile(use_redis, IM, RS, stats, user_id, profile, now, fails)} :
         /\ Apply(r)
         /\ last' = UserRecord("cache_user_profile", user_id, r)
         /\ UNCHANGED written

UserCacheRecommendations ==
  /\ UNCHANGED notCache
  /\ nops < MaxUserOps
  /\ \E user_id \in CacheUsers, rec_type \in RecTypes, fails \in MayFail :
       \E r \in {CacheRecommendations(use_redis, IM, RS, stats, user_id, rec_type,
                                      PyList(<<"b1">>), now, fails)} :
         /\ Apply(r)
         /\ last' = UserRecord("cache_recommendations", user_id, r)
         /\ UNCHANGED written

UserGetProfile ==
  /\ UNCHANGED notCache
  /\ nops < MaxUserOps
  /\ \E user_id \in CacheUsers, fails \in MayFail :
       \E r \in {GetUserProfile(use_redis, IM, RS, stats, user_id, now, fails)} :
         /\ Apply(r)
         /\ last' = UserRecord("get_user_profile", user_id, r)
         /\ UNCHANGED written

UserGetRecommendations ==
  /\ UNCHANGED notCache
  /\ nops < MaxUserOps
  /\ \E user_id \in CacheUsers, rec_type \in RecTypes, fails \in MayFail :
       \E r \in {GetRecommendations(use_redis, IM, RS, stats, user_id, rec_type, now, fails)} :
         /\ Apply(r)
         /\ last' = UserRecord("get_recommendations", user_id, r)
         /\ UNCHANGED written

UserInvalidate ==
  /\ UNCHANGED notCache
  /\ nops < MaxUserOps
  /\ \E user_id \in CacheUsers, f1 \in MayFail, f2 \in MayFail :
       \E r \in {InvalidateUserCache(use_redis, IM, RS, stats, user_id, now, <<f1, f2>>)} :
         /\ Apply(r)
         /\ last' = UserRecord("invalidate_user_cache", user_id, r)
         /\ UNCHANGED written

UserCacheNext ==
  \/ Initialize
  \/ Cleanup
  \/ UserCacheProfile
  \/ UserCacheRecommendations
  \/ UserGetProfile
  \/ UserGetRecommendations
  \/ UserInvalidate
  \/ Tick

(***************************************************************************)
(* The eviction specification: an InMemoryCache built with max_size =       *)
(* EvictCap and filled by EvictCap sets at time 0, then used through its   *)
(* own get and set.                                                        *)
(***************************************************************************)
EvictCap == 20
MaxEvictOps == 3

EvictKey(i) == IntToStr(i)
\* the keys that are read, and the keys that are written, afterwards
EvictGetKeys == {EvictKey(1), EvictKey(2), EvictKey(EvictCap)}
EvictSetKeys == {EvictKey(2), EvictKey(3), EvictKey(EvictCap + 1), EvictKey(EvictCap + 2)}
EvictTTL == MaxTime + 1

RECURSIVE FilledCache(_)
FilledCache(n) ==
  IF n = 0 THEN IMState(EmptyMap, <<>>)
  ELSE Bind(FilledCache(n - 1), LAMBDA st :
         IMSetWithin(EvictCap, st, EvictKey(n), PyStr("v1"), EvictTTL, 0).st)

EvictInit ==
  /\ \E st \in {FilledCache(EvictCap)} :
       /\ cache = st.cache
       /\ access_times = st.access_times
  /\ client = FALSE
  /\ connected = FALSE
  /\ rstore = EmptyMap
  /\ use_redis = FALSE
  /\ stats = ZeroStats
  /\ now = 0
  /\ last = NoOp
  /\ written = EmptyMap
  /\ nops = 0

EvictApply(st) ==
  /\ cache' = st.cache
  /\ access_times' = st.access_times
  /\ nops' = nops + 1
  /\ UNCHANGED <<client, connected, rstore, use_redis, stats, now, written>>

EvictGet ==
  /\ UNCHANGED notCache
  /\ nops < MaxEvictOps
  /\ \E key \in EvictGetKeys :
       \E r \in {IMGet(IM, key, now)} :
         /\ EvictApply(r.st)
         /\ last' = [NoOp EXCEPT !.op = "imget", !.key = key, !.ret = r.ret, !.at = now]

EvictSet ==
  /\ UNCHANGED notCache
  /\ nops < MaxEvictOps
  /\ \E key \in EvictSetKeys, ttl \in TTLs :
       \E r \in {IMSetWithin(EvictCap, IM, key, PyStr("v2"), ttl, now)} :
         /\ EvictApply(r.st)
         /\ last' = [NoOp EXCEPT !.op = "imset", !.key = key, !.ret = r.ret,
                                 !.at = now,
                                 !.full_before = Cardinality(DOMAIN cache) >= EvictCap,
                                 !.tracking = key \in DOMAIN cache,
                                 !.evicted = r.evicted]

EvictNext ==
  \/ EvictGet
  \/ EvictSet
  \/ Tick

(***************************************************************************)
(* The diversifier specification: one call of diversify_results, a pass of *)
(* its while loop at a time.                                               *)
(***************************************************************************)
MaxCands == 4
MaxPerCategory == 3
Categories == {"Romance", "Mystery", None, Missing}
Scores == {1, 2}

Candidate == [category : Categories, similarity_score : Scores]

CandidateLists == UNION {[1..n -> Candidate] : n \in 0..MaxCands}

DivIdle ==
  /\ d_candidates = <<>>
  /\ d_max_per_category = 1
  /\ d_groups = <<>>
  /\ d_diversified = <<>>
  /\ d_remaining = 0
  /\ d_pc = "idle"
  /\ d_result = <<>>

DivInit ==
  /\ d_candidates \in CandidateLists
  /\ d_max_per_category \in 1..MaxPerCategory
  /\ d_groups = <<>>
  /\ d_diversified = <<>>
  /\ d_remaining = 0
  /\ d_pc = "call"
  /\ d_result = <<>>

\* Entry: the empty list is returned as it is; otherwise the candidates are
\* grouped and the loop's locals initialised.
DivEnter ==
  /\ UNCHANGED notDiv
  /\ d_pc = "call"
  /\ IF d_candidates = <<>>
     THEN /\ d_result' = d_candidates
          /\ d_pc' = "done"
          /\ UNCHANGED <<d_groups, d_diversified, d_remaining>>
     ELSE /\ d_groups' = GroupByCategory(d_candidates, <<>>)
          /\ d_diversified' = <<>>
          /\ d_remaining' = Len(d_candidates)
          /\ d_pc' = "loop"
          /\ UNCHANGED d_result
  /\ UNCHANGED <<d_candidates, d_max_per_category>>

\* One pass of the while loop.
DivRound ==
  /\ UNCHANGED notDiv
  /\ d_pc = "loop"
  /\ DivLoopCondition(d_groups, d_remaining)
  /\ LET loc == DivPass(d_groups, d_diversified, d_remaining, d_max_per_category)
     IN  /\ d_groups' = loc.groups
         /\ d_diversified' = loc.diversified
         /\ d_remaining' = loc.remaining
         /\ d_pc' = IF loc.added = 0 THEN "sort" ELSE "loop"
  /\ UNCHANGED <<d_candidates, d_max_per_category, d_result>>

\* The loop condition fails.
DivExitLoop ==
  /\ UNCHANGED notDiv
  /\ d_pc = "loop"
  /\ ~DivLoopCondition(d_groups, d_remaining)
  /\ d_pc' = "sort"
  /\ UNCHANGED <<d_candidates, d_max_per_category, d_groups, d_diversified,
                 d_remaining, d_result>>

\* The final sort and the return.
DivReturn ==
  /\ UNCHANGED notDiv
  /\ d_pc = "sort"
  /\ d_result' = SortByScoreDesc(d_diversified)
  /\ d_pc' = "done"
  /\ UNCHANGED <<d_candidates, d_max_per_category, d_groups, d_diversified, d_remaining>>

DivNext == DivEnter \/ DivRound \/ DivExitLoop \/ DivReturn

(***************************************************************************)
(* RecommendationEngine.  A call runs as one step from where it starts or  *)
(* resumes to where it next waits for the embedding provider               *)
(* (run_in_executor, the only place where the event loop can run another   *)
(* call) or returns.  A machine is what such a run reads and writes: the   *)
(* embeddings table, the embedding service's cache, the result cache, the  *)
(* two statistics and the call's frame.  A context is what it only reads.  *)
(* Scores are in thousandths (similarity, trending) or ten-thousandths     *)
(* (affinity); a TTL is in units of 1800 seconds.                          *)
(***************************************************************************)
TimeUnit == 1800
SimilarTTL == 3600 \div TimeUnit
PersonalizedTTL == 1800 \div TimeUnit
TrendingTTL == 1800 \div TimeUnit
AffinityThreshold == 2000
DefaultMaxPerCategory == 3
DefaultTimeWindowDays == 30
DefaultMinInteractions == 5

ZeroEngineStats ==
  [recommendations_generated |-> 0, cache_hits |-> 0, cache_misses |-> 0,
   similar_book_requests |-> 0, personalized_requests |-> 0, trending_requests |-> 0]

\* str(x) inside an f-string
FormatBool(b) == IF b THEN <<"True">> ELSE <<"False">>
\* a float given in thousandths, for the multiples of 0.1 below 1
FormatFloat(x) == <<"0", ".", Digits[(x \div 100) + 1]>>

\* The cache keys, as the pieces the f-string joins.
SimilarKey(book_id, limit, min_similarity) ==
  <<"similar_", book_id, "_">> \o IntToStr(limit) \o <<"_">> \o FormatFloat(min_similarity)
PersonalizedKey(user_id, limit, exclude_purchased) ==
  <<"personalized_", user_id, "_">> \o IntToStr(limit) \o <<"_">> \o FormatBool(exclude_purchased)
TrendingKey(limit, time_window_days, min_interactions) ==
  <<"trending_">> \o IntToStr(limit) \o <<"_">> \o IntToStr(time_window_days)
     \o <<"_">> \o IntToStr(min_interactions)

\* s[:n]
Take(s, n) == SubSeq(s, 1, Min(n, Len(s)))

IdleFrame ==
  [pc |-> "idle", op |-> "none", book_id |-> "", user_id |-> "", limit |-> 0,
   min_similarity |-> 0, exclude_categories |-> <<>>, exclude_purchased |-> FALSE,
   time_window_days |-> 0, min_interactions |-> 0, key |-> <<>>,
   target_book |-> NoBook, target_embedding |-> NoVec, candidates |-> <<>>, idx |-> 0,
   scored |-> <<>>, user_profile |-> EmptyProfile, user_interactions |-> <<>>,
   tallies |-> [categories |-> <<>>, authors |-> <<>>, texts |-> <<>>],
   gen |-> NoBook,
   \* what the call found and did, kept for the properties
   pre_present |-> FALSE, pre_value |-> PyNone, zero_history |-> FALSE,
   cold_start |-> FALSE, hit |-> FALSE, trending_hit |-> FALSE, fetched |-> FALSE, writes |-> <<>>,
   skipped |-> <<>>, result |-> <<>>]

\* return result
Return(m, result) == [m EXCEPT !.fr.pc = "done", !.fr.result = result]

\* _get_from_cache: the manager's get with no parameters
GetFromCache(m, ctx, key) ==
  Bind(CacheManagerGet(ctx.useR, m.im, ctx.rs, m.mstats, key, <<>>, ctx.t, FALSE),
       LAMBDA r : [m |-> [m EXCEPT !.im = r.im, !.mstats = r.stats], ret |-> r.ret])

\* _set_cache
SetCache(m, ctx, key, data, ttl) ==
  Bind(CacheManagerSet(ctx.useR, m.im, ctx.rs, m.mstats, key, PyList(data), ttl,
                       <<>>, ctx.t, FALSE),
       LAMBDA r : [m EXCEPT !.im = r.im, !.mstats = r.stats, !.fr.writes = Append(@, key)])

\* The unexpired entry a call finds under its key when it starts.
NoteEntry(m, ctx, key) ==
  IF key \in DOMAIN m.im.cache /\ m.im.cache[key].expires_at > ctx.t
  THEN [m EXCEPT !.fr.pre_present = TRUE, !.fr.pre_value = m.im.cache[key].value]
  ELSE m

(***************************************************************************)
(* get_trending_books.  A row of purchases or recommendation_interactions  *)
(* is [user_id, book_id, interaction_type, days_old, aware]; purchases are *)
(* the rows of type "purchase".  The query leaves the order of books with  *)
(* equal trend_score and purchase_count to the database: `order` is the    *)
(* order it happens to use.                                                *)
(***************************************************************************)
CountRows(rows, book_id, kinds, time_window_days) ==
  Len(SelectSeq(rows, LAMBDA r : /\ r.book_id = book_id
                                 /\ r.interaction_type \in kinds
                                 /\ r.days_old < time_window_days))

TrendRow(rows, book_id, time_window_days) ==
  Bind(CountRows(rows, book_id, {"purchase"}, time_window_days), LAMBDA purchase_count :
  Bind(CountRows(rows, book_id, {"click", "view", "like"}, time_window_days),
       LAMBDA interaction_count :
         [id |-> book_id, purchase_count |-> purchase_count,
          interaction_count |-> interaction_count,
          trend_score |-> 2 * purchase_count + interaction_count]))

\* ORDER BY trend_score DESC, purchase_count DESC
RECURSIVE InsertByTrend(_, _)
InsertByTrend(x, s) ==
  IF s = <<>> THEN <<x>>
  ELSE IF \/ x.trend_score > Head(s).trend_score
          \/ /\ x.trend_score = Head(s).trend_score
             /\ x.purchase_count >= Head(s).purchase_count
       THEN <<x>> \o s
  ELSE <<Head(s)>> \o InsertByTrend(x, Tail(s))

RECURSIVE SortByTrend(_)
SortByTrend(s) ==
  IF s = <<>> THEN <<>>
  ELSE Bind(SortByTrend(Tail(s)), LAMBDA sorted : InsertByTrend(Head(s), sorted))

\* Variant: HAVING compares the trend score, not the combined count.
TrendingQueryByScore(rows, order, limit, time_window_days, min_interactions) ==
  LET grouped == [i \in DOMAIN order |-> TrendRow(rows, order[i], time_window_days)]
  IN  Bind(SelectSeq(grouped, LAMBDA g : g.trend_score >= min_interactions),
           LAMBDA having : Bind(SortByTrend(having), LAMBDA sorted : Take(sorted, limit)))

TrendingQuery(rows, order, limit, time_window_days, min_interactions) ==
  LET grouped == [i \in DOMAIN order |-> TrendRow(rows, order[i], time_window_days)]
  IN  Bind(SelectSeq(grouped, LAMBDA g :
                       g.purchase_count + g.interaction_count >= min_interactions),
           LAMBDA having : Bind(SortByTrend(having), LAMBDA sorted : Take(sorted, limit)))

\* book_copy["similarity_score"] = min(1.0, trend_score / 100.0)
TrendingItem(g) ==
  [id |-> g.id, category |-> BooksTable(g.id).category, author |-> BooksTable(g.id).author,
   similarity_score |-> Min(Scale, g.trend_score * (Scale \div 100))]

\* Variant: the failure of the query is not caught and reaches the caller.
GetTrendingBooksUncaught(m, ctx) ==
  Bind(TrendingKey(m.fr.limit, m.fr.time_window_days, m.fr.min_interactions), LAMBDA key :
  Bind([m EXCEPT !.estats.trending_requests = @ + 1], LAMBDA m1 :
  Bind(GetFromCache(m1, ctx, key), LAMBDA c :
    IF Truthy(c.ret)
    THEN Return([c.m EXCEPT !.estats.cache_hits = @ + 1, !.fr.hit = TRUE], c.ret.v)
    ELSE Bind([c.m EXCEPT !.estats.cache_misses = @ + 1], LAMBDA m2 :
      IF ~ctx.sb THEN Return(m2, <<>>)
      ELSE IF ~ctx.up THEN [m2 EXCEPT !.fr.fetched = TRUE, !.fr.pc = "raised"]
      ELSE Bind(TrendingQuery(ctx.rows, ctx.order, m.fr.limit, m.fr.time_window_days,
                              m.fr.min_interactions), LAMBDA data :
           Bind([i \in DOMAIN data |-> TrendingItem(data[i])], LAMBDA trending_books :
           Bind([m2 EXCEPT !.fr.fetched = TRUE], LAMBDA m3 :
           Bind(SetCache(m3, ctx, key, trending_books, TrendingTTL), LAMBDA m4 :
             Return([m4 EXCEPT !.estats.recommendations_generated = @ + 1],
                    trending_books)))))))))

\* get_trending_books, on a frame that holds its arguments.
GetTrendingBooks(m, ctx) ==
  Bind(TrendingKey(m.fr.limit, m.fr.time_window_days, m.fr.min_interactions), LAMBDA key :
  Bind([m EXCEPT !.estats.trending_requests = @ + 1], LAMBDA m1 :
  Bind(GetFromCache(m1, ctx, key), LAMBDA c :
    IF Truthy(c.ret)
    THEN Return([c.m EXCEPT !.estats.cache_hits = @ + 1, !.fr.hit = TRUE], c.ret.v)
    ELSE Bind([c.m EXCEPT !.estats.cache_misses = @ + 1], LAMBDA m2 :
      IF ~ctx.sb THEN Return(m2, <<>>)
      ELSE IF ~ctx.up THEN Return([m2 EXCEPT !.fr.fetched = TRUE], <<>>)
      ELSE Bind(TrendingQuery(ctx.rows, ctx.order, m.fr.limit, m.fr.time_window_days,
                              m.fr.min_interactions), LAMBDA data :
           Bind([i \in DOMAIN data |-> TrendingItem(data[i])], LAMBDA trending_books :
           Bind([m2 EXCEPT !.fr.fetched = TRUE], LAMBDA m3 :
           Bind(SetCache(m3, ctx, key, trending_books, TrendingTTL), LAMBDA m4 :
             Return([m4 EXCEPT !.estats.recommendations_generated = @ + 1],
                    trending_books)))))))))

(***************************************************************************)
(* _get_or_generate_book_embedding, in two halves: up to the provider, and *)
(* from the provider's answer on.  The embedding service keeps the vectors *)
(* it has generated (ecache is the set of their texts) and answers for     *)
(* those without the provider.                                             *)
(***************************************************************************)
Upsert(emb, book_id, vec) == MapPut(emb, book_id, vec)

\* From the provider's answer on: ok says the provider produced a vector.
GetOrGenerateFinish(m, ctx, book, ok) ==
  IF ~ok THEN [m |-> m, vec |-> NoVec, suspended |-> FALSE]
  ELSE Bind(ProviderVector(BookText(book.id)), LAMBDA embedding :
       Bind([m EXCEPT !.ecache = @ \cup {BookText(book.id)}], LAMBDA m1 :
         IF ~ctx.sb THEN [m |-> m1, vec |-> embedding, suspended |-> FALSE]
         ELSE IF ~ctx.up
              THEN [m |-> [m1 EXCEPT !.fr.fetched = TRUE], vec |-> NoVec,
                    suspended |-> FALSE]
         ELSE [m |-> [m1 EXCEPT !.emb = Upsert(@, book.id, embedding),
                                !.fr.fetched = TRUE],
               vec |-> embedding, suspended |-> FALSE]))

\* Variant: the book_embeddings table is not consulted.
GetOrGenerateAnew(m, ctx, book) ==
  IF ctx.sb /\ ~ctx.up
  THEN [m |-> [m EXCEPT !.fr.fetched = TRUE], vec |-> NoVec, suspended |-> FALSE]
  ELSE Bind([m EXCEPT !.fr.fetched = @ \/ ctx.sb], LAMBDA m1 :
         IF BookText(book.id) \in m.ecache
         THEN GetOrGenerateFinish(m1, ctx, book, TRUE)
         ELSE [m |-> [m1 EXCEPT !.fr.gen = book], vec |-> NoVec, suspended |-> TRUE])

GetOrGenerateStart(m, ctx, book) ==
  IF ctx.sb /\ ~ctx.up
  THEN [m |-> [m EXCEPT !.fr.fetched = TRUE], vec |-> NoVec, suspended |-> FALSE]
  ELSE IF ctx.sb /\ book.id \in DOMAIN m.emb
  THEN [m |-> [m EXCEPT !.fr.fetched = TRUE], vec |-> m.emb[book.id],
        suspended |-> FALSE]
  ELSE Bind([m EXCEPT !.fr.fetched = @ \/ ctx.sb], LAMBDA m1 :
         IF BookText(book.id) \in m.ecache
         THEN GetOrGenerateFinish(m1, ctx, book, TRUE)
         ELSE [m |-> [m1 EXCEPT !.fr.gen = book], vec |-> NoVec, suspended |-> TRUE])

(***************************************************************************)
(* get_similar_books.                                                      *)
(***************************************************************************)
ScoredItem(book, score) ==
  [id |-> book.id, category |-> book.category, author |-> book.author,
   similarity_score |-> score]

\* Variant: a candidate is kept whatever its similarity.
SimilarAcceptAll(m, candidate, candidate_embedding) ==
  IF candidate_embedding = NoVec
  THEN [m EXCEPT !.fr.idx = @ + 1, !.fr.skipped = Append(@, candidate.id)]
  ELSE Bind(CosineSimilarity(m.fr.target_embedding, candidate_embedding),
            LAMBDA similarity :
              [m EXCEPT !.fr.idx = @ + 1,
                        !.fr.scored = Append(@, ScoredItem(candidate, similarity))])

\* The body of the loop over the candidates, once the candidate's embedding
\* is known.
SimilarAccept(m, candidate, candidate_embedding) ==
  IF candidate_embedding = NoVec
  THEN [m EXCEPT !.fr.idx = @ + 1, !.fr.skipped = Append(@, candidate.id)]
  ELSE Bind(CosineSimilarity(m.fr.target_embedding, candidate_embedding),
            LAMBDA similarity :
              IF similarity >= m.fr.min_similarity
              THEN [m EXCEPT !.fr.idx = @ + 1,
                             !.fr.scored = Append(@, ScoredItem(candidate, similarity))]
              ELSE [m EXCEPT !.fr.idx = @ + 1])

\* Variant: the result is written only when the key holds no entry.
SimilarFinishIfAbsent(m, ctx) ==
  Bind(SortByScoreDesc(m.fr.scored), LAMBDA similar_books :
  Bind(Take(similar_books, m.fr.limit * 2), LAMBDA top :
  Bind(DiversifyResults(top, DefaultMaxPerCategory), LAMBDA diversified :
  Bind(Take(diversified, m.fr.limit), LAMBDA diversified_books :
  Bind(IF m.fr.key \in DOMAIN m.im.cache THEN m
       ELSE SetCache(m, ctx, m.fr.key, diversified_books, SimilarTTL), LAMBDA m1 :
    Return([m1 EXCEPT !.estats.recommendations_generated = @ + 1], diversified_books))))))

\* Rank, diversify, truncate, cache, return.
SimilarFinish(m, ctx) ==
  Bind(SortByScoreDesc(m.fr.scored), LAMBDA similar_books :
  Bind(Take(similar_books, m.fr.limit * 2), LAMBDA top :
  Bind(DiversifyResults(top, DefaultMaxPerCategory), LAMBDA diversified :
  Bind(Take(diversified, m.fr.limit), LAMBDA diversified_books :
  Bind(SetCache(m, ctx, m.fr.key, diversified_books, SimilarTTL), LAMBDA m1 :
    Return([m1 EXCEPT !.estats.recommendations_generated = @ + 1], diversified_books))))))

RECURSIVE SimilarLoop(_, _)
SimilarLoop(m, ctx) ==
  IF m.fr.idx > Len(m.fr.candidates) THEN SimilarFinish(m, ctx)
  ELSE Bind(m.fr.candidates[m.fr.idx], LAMBDA candidate :
       Bind(GetOrGenerateStart(m, ctx, candidate), LAMBDA g :
         IF g.suspended THEN [g.m EXCEPT !.fr.pc = "similar_candidate"]
         ELSE Bind(SimilarAccept(g.m, candidate, g.vec), LAMBDA m1 : SimilarLoop(m1, ctx))))

\* From the target's embedding on.
SimilarAfterTarget(m, ctx, target_embedding) ==
  IF target_embedding = NoVec THEN Return(m, <<>>)
  ELSE Bind([m EXCEPT !.fr.target_embedding = target_embedding,
                      !.fr.candidates =
                         GetCandidateBooks(ctx.sb, ctx.up, m.fr.book_id, <<>>,
                                           m.fr.exclude_categories),
                      !.fr.fetched = @ \/ ctx.sb,
                      !.fr.idx = 1,
                      !.fr.scored = <<>>], LAMBDA m1 : SimilarLoop(m1, ctx))

\* Variant: the empty result for a target that was not found is cached.
GetSimilarBooksCachesNotFound(m, ctx) ==
  Bind(SimilarKey(m.fr.book_id, m.fr.limit, m.fr.min_similarity), LAMBDA key :
  Bind([m EXCEPT !.estats.similar_book_requests = @ + 1, !.fr.key = key], LAMBDA m1 :
  Bind(GetFromCache(m1, ctx, key), LAMBDA c :
    IF Truthy(c.ret)
    THEN Return([c.m EXCEPT !.estats.cache_hits = @ + 1, !.fr.hit = TRUE], c.ret.v)
    ELSE Bind(GetBookData(ctx.sb, ctx.up, m.fr.book_id), LAMBDA target_book :
         Bind([c.m EXCEPT !.estats.cache_misses = @ + 1,
                          !.fr.fetched = ctx.sb,
                          !.fr.target_book = target_book], LAMBDA m2 :
           IF target_book = NoBook
           THEN Bind(SetCache(m2, ctx, key, <<>>, SimilarTTL), LAMBDA m3 :
                  Return(m3, <<>>))
           ELSE Bind(GetOrGenerateStart(m2, ctx, target_book), LAMBDA g :
                  IF g.suspended THEN [g.m EXCEPT !.fr.pc = "similar_target"]
                  ELSE SimilarAfterTarget(g.m, ctx, g.vec)))))))

\* get_similar_books, on a frame that holds its arguments.
GetSimilarBooks(m, ctx) ==
  Bind(SimilarKey(m.fr.book_id, m.fr.limit, m.fr.min_similarity), LAMBDA key :
  Bind([m EXCEPT !.estats.similar_book_requests = @ + 1, !.fr.key = key], LAMBDA m1 :
  Bind(GetFromCache(m1, ctx, key), LAMBDA c :
    IF Truthy(c.ret)
    THEN Return([c.m EXCEPT !.estats.cache_hits = @ + 1, !.fr.hit = TRUE], c.ret.v)
    ELSE Bind(GetBookData(ctx.sb, ctx.up, m.fr.book_id), LAMBDA target_book :
         Bind([c.m EXCEPT !.estats.cache_misses = @ + 1,
                          !.fr.fetched = ctx.sb,
                          !.fr.target_book = target_book], LAMBDA m2 :
           IF target_book = NoBook THEN Return(m2, <<>>)
           ELSE Bind(GetOrGenerateStart(m2, ctx, target_book), LAMBDA g :
                  IF g.suspended THEN [g.m EXCEPT !.fr.pc = "similar_target"]
                  ELSE SimilarAfterTarget(g.m, ctx, g.vec)))))))

(***************************************************************************)
(* get_personalized_recommendations.                                       *)
(***************************************************************************)
\* Variant: the loop ends at the first candidate without an embedding.
PersonalizedAcceptOrStop(m, candidate, candidate_embedding) ==
  IF candidate_embedding = NoVec
  THEN [m EXCEPT !.fr.idx = Len(m.fr.candidates) + 1, !.fr.skipped = Append(@, candidate.id)]
  ELSE Bind(CalculateUserBookAffinity(m.fr.user_profile, candidate, candidate_embedding),
            LAMBDA affinity :
              IF affinity > AffinityThreshold
              THEN [m EXCEPT !.fr.idx = @ + 1,
                             !.fr.scored = Append(@, ScoredItem(candidate, affinity))]
              ELSE [m EXCEPT !.fr.idx = @ + 1])

PersonalizedAccept(m, candidate, candidate_embedding) ==
  IF candidate_embedding = NoVec
  THEN [m EXCEPT !.fr.idx = @ + 1, !.fr.skipped = Append(@, candidate.id)]
  ELSE Bind(CalculateUserBookAffinity(m.fr.user_profile, candidate, candidate_embedding),
            LAMBDA affinity :
              IF affinity > AffinityThreshold
              THEN [m EXCEPT !.fr.idx = @ + 1,
                             !.fr.scored = Append(@, ScoredItem(candidate, affinity))]
              ELSE [m EXCEPT !.fr.idx = @ + 1])

PersonalizedFinish(m, ctx) ==
  Bind(SortByScoreDesc(m.fr.scored), LAMBDA recommendations :
  Bind(Take(recommendations, m.fr.limit * 2), LAMBDA top :
  Bind(DiversifyResults(top, DefaultMaxPerCategory), LAMBDA diversified :
  Bind(Take(diversified, m.fr.limit), LAMBDA diversified_recs :
  Bind(SetCache(m, ctx, m.fr.key, diversified_recs, PersonalizedTTL), LAMBDA m1 :
    Return([m1 EXCEPT !.estats.recommendations_generated = @ + 1], diversified_recs))))))

RECURSIVE PersonalizedLoop(_, _)
PersonalizedLoop(m, ctx) ==
  IF m.fr.idx > Len(m.fr.candidates) THEN PersonalizedFinish(m, ctx)
  ELSE Bind(m.fr.candidates[m.fr.idx], LAMBDA candidate :
       Bind(GetOrGenerateStart(m, ctx, candidate), LAMBDA g :
         IF g.suspended THEN [g.m EXCEPT !.fr.pc = "personalized_candidate"]
         ELSE Bind(PersonalizedAccept(g.m, candidate, g.vec),
                   LAMBDA m1 : PersonalizedLoop(m1, ctx))))

\* From the profile on: the purchased books, the candidates, the loop.
PersonalizedAfterProfile(m, ctx, user_profile) ==
  Bind(IF m.fr.exclude_purchased
       THEN GetUserPurchasedBooks(ctx.sb, ctx.up, ctx.rows, m.fr.user_id)
       ELSE <<>>, LAMBDA exclude_book_ids :
  Bind([m EXCEPT !.fr.user_profile = user_profile,
                 !.fr.candidates =
                    GetCandidateBooks(ctx.sb, ctx.up, "", exclude_book_ids, <<>>),
                 !.fr.fetched = @ \/ ctx.sb,
                 !.fr.idx = 1,
                 !.fr.scored = <<>>], LAMBDA m1 : PersonalizedLoop(m1, ctx)))

\* _build_user_profile from the provider's answer on: the batch of
\* preference texts was embedded (ok) or the provider raised.
BuildUserProfileFinish(m, ok) ==
  IF ~ok THEN [m |-> m, profile |-> EmptyProfile, suspended |-> FALSE]
  ELSE Bind(m.fr.tallies.texts, LAMBDA texts :
         [m |-> [m EXCEPT !.ecache = @ \cup {texts[i] : i \in DOMAIN texts}],
          profile |-> MakeProfile(m.fr.user_interactions, m.fr.tallies,
                                  PreferenceEmbedding(texts)),
          suspended |-> FALSE])

\* _build_user_profile up to the provider.
BuildUserProfileStart(m) ==
  IF TimestampRaises(m.fr.user_interactions)
  THEN [m |-> m, profile |-> EmptyProfile, suspended |-> FALSE]
  ELSE Bind(ProfileTallies(m.fr.user_interactions,
                           [categories |-> <<>>, authors |-> <<>>, texts |-> <<>>]),
            LAMBDA tallies :
       Bind([m EXCEPT !.fr.tallies = tallies], LAMBDA m1 :
         IF tallies.texts = <<>>
         THEN [m |-> m1, profile |-> MakeProfile(m.fr.user_interactions, tallies, NoVec),
               suspended |-> FALSE]
         ELSE IF \A i \in DOMAIN tallies.texts : tallies.texts[i] \in m.ecache
         THEN BuildUserProfileFinish(m1, TRUE)
         ELSE [m |-> m1, profile |-> EmptyProfile, suspended |-> TRUE]))

\* Variant: the cold start also stores the list under the personalized key.
ColdStartCached(m, ctx) ==
  Bind([m EXCEPT !.fr.time_window_days = DefaultTimeWindowDays,
                 !.fr.min_interactions = DefaultMinInteractions], LAMBDA inner :
  Bind(GetTrendingBooks(inner, ctx), LAMBDA t :
  Bind([t EXCEPT !.fr.trending_hit = t.fr.hit, !.fr.hit = FALSE], LAMBDA m1 :
    SetCache(m1, ctx, m.fr.key, t.fr.result, PersonalizedTTL))))

\* return await self.get_trending_books(limit): the inner call runs with the
\* default window and threshold; whether it was served from the cache is
\* kept apart from whether the personalized lookup was.
ColdStart(m, ctx) ==
  Bind([m EXCEPT !.fr.time_window_days = DefaultTimeWindowDays,
                 !.fr.min_interactions = DefaultMinInteractions], LAMBDA inner :
  Bind(GetTrendingBooks(inner, ctx), LAMBDA t :
    [t EXCEPT !.fr.trending_hit = t.fr.hit, !.fr.hit = FALSE]))

\* Variant: the miss is counted once the history is known not to be empty.
GetPersonalizedMissAfterHistory(m, ctx) ==
  Bind(PersonalizedKey(m.fr.user_id, m.fr.limit, m.fr.exclude_purchased), LAMBDA key :
  Bind([m EXCEPT !.estats.personalized_requests = @ + 1, !.fr.key = key], LAMBDA m1 :
  Bind(GetFromCache(m1, ctx, key), LAMBDA c :
    IF Truthy(c.ret)
    THEN Return([c.m EXCEPT !.estats.cache_hits = @ + 1, !.fr.hit = TRUE], c.ret.v)
    ELSE Bind(GetUserInteractions(ctx.sb, ctx.up, ctx.rows, m.fr.user_id),
              LAMBDA user_interactions :
         Bind([c.m EXCEPT !.fr.fetched = ctx.sb,
                          !.fr.user_interactions = user_interactions], LAMBDA m2 :
           IF user_interactions = <<>>
           THEN Bind([m2 EXCEPT !.fr.cold_start = TRUE], LAMBDA m3 : ColdStart(m3, ctx))
           ELSE Bind(BuildUserProfileStart([m2 EXCEPT !.estats.cache_misses = @ + 1]),
                     LAMBDA b :
                  IF b.suspended THEN [b.m EXCEPT !.fr.pc = "personalized_profile"]
                  ELSE PersonalizedAfterProfile(b.m, ctx, b.profile)))))))

\* get_personalized_recommendations, on a frame that holds its arguments.
GetPersonalizedRecommendations(m, ctx) ==
  Bind(PersonalizedKey(m.fr.user_id, m.fr.limit, m.fr.exclude_purchased), LAMBDA key :
  Bind([m EXCEPT !.estats.personalized_requests = @ + 1, !.fr.key = key], LAMBDA m1 :
  Bind(GetFromCache(m1, ctx, key), LAMBDA c :
    IF Truthy(c.ret)
    THEN Return([c.m EXCEPT !.estats.cache_hits = @ + 1, !.fr.hit = TRUE], c.ret.v)
    ELSE Bind(GetUserInteractions(ctx.sb, ctx.up, ctx.rows, m.fr.user_id),
              LAMBDA user_interactions :
         Bind([c.m EXCEPT !.estats.cache_misses = @ + 1,
                          !.fr.fetched = ctx.sb,
                          !.fr.user_interactions = user_interactions], LAMBDA m2 :
           IF user_interactions = <<>>
           THEN Bind([m2 EXCEPT !.fr.cold_start = TRUE], LAMBDA m3 : ColdStart(m3, ctx))
           ELSE Bind(BuildUserProfileStart(m2), LAMBDA b :
                  IF b.suspended THEN [b.m EXCEPT !.fr.pc = "personalized_profile"]
                  ELSE PersonalizedAfterProfile(b.m, ctx, b.profile)))))))

(***************************************************************************)
(* The engine specification: calls of the three strategies by two callers, *)
(* the provider's answers, the store's rows and availability, the clock.   *)
(***************************************************************************)
MaxEvents == 2
MaxRows == 5

Procs == {"p1", "p2"}
\* the callers this specification drives
Callers == {"p1"}
Users == {"u1", "u2"}
BookIds == {"b1", "b3", "b9"}
Limits == {1, 2}
MinSimilarities == {300, 900}
ExcludeLists == {<<>>, <<"Romance">>}
\* orders in which the database may list books that tie: every pair of
\* books comes both ways round
BookOrders == {BookOrder, <<"b3", "b2", "b1">>}

Row(user_id, book_id, interaction_type, days_old, aware) ==
  [user_id |-> user_id, book_id |-> book_id, interaction_type |-> interaction_type,
   days_old |-> days_old, aware |-> aware]

\* One reader's month with one book: five rows, enough to make it trend.
BusyRows ==
  <<Row("u1", "b1", "purchase", 0, FALSE), Row("u1", "b1", "like", 0, FALSE),
    Row("u1", "b1", "click", 1, FALSE), Row("u1", "b1", "view", 1, FALSE),
    Row("u1", "b1", "view", 2, FALSE)>>
InitialRows == {Take(BusyRows, 4), BusyRows}
NewRows == {Row("u1", "b1", "view", 0, FALSE), Row("u2", "b3", "purchase", 0, FALSE)}

AllEmbeddings == [b \in Books |-> ProviderVector(BookText(b))]
\* the table before the newest book was embedded
SomeEmbeddings == [b \in {"b1", "b2"} |-> ProviderVector(BookText(b))]

Suspended == {"similar_target", "similar_candidate", "personalized_profile",
              "personalized_candidate"}

Ctx(order) ==
  [sb |-> supabase, up |-> store_up, rows |-> store_rows, t |-> now, order |-> order,
   useR |-> use_redis, rs |-> RS]

Machine(fr) ==
  [emb |-> book_embeddings, ecache |-> ecache, im |-> IM, mstats |-> stats,
   estats |-> e_stats, fr |-> fr]

EngineIdle ==
  /\ supabase = FALSE
  /\ store_up = TRUE
  /\ book_embeddings = EmptyMap
  /\ store_rows = <<>>
  /\ ecache = {}
  /\ e_stats = ZeroEngineStats
  /\ frames = [p \in Procs |-> IdleFrame]
  /\ e_last = IdleFrame
  /\ e_events = 0

\* main.py builds the engine over a CacheManager with no Redis URL.
EngineInit ==
  /\ supabase \in BOOLEAN
  /\ store_up = TRUE
  /\ book_embeddings = SomeEmbeddings
  /\ store_rows \in InitialRows
  /\ ecache = {}
  /\ e_stats = ZeroEngineStats
  /\ frames = [p \in Procs |-> IdleFrame]
  /\ e_last = IdleFrame
  /\ e_events = 0
  /\ cache = EmptyMap
  /\ access_times = <<>>
  /\ client = FALSE
  /\ connected = FALSE
  /\ rstore = EmptyMap
  /\ use_redis = FALSE
  /\ stats = ZeroStats
  /\ now = 0
  /\ last = NoOp
  /\ written = EmptyMap
  /\ nops = 0

\* What a run leaves: the call returned or raised (its frame is kept in
\* e_last) or it waits for the provider.
Commit(p, m) ==
  /\ book_embeddings' = m.emb
  /\ ecache' = m.ecache
  /\ cache' = m.im.cache
  /\ access_times' = m.im.access_times
  /\ stats' = m.mstats
  /\ e_stats' = m.estats
  /\ IF m.fr.pc \in {"done", "raised"}
     THEN frames' = [frames EXCEPT ![p] = IdleFrame] /\ e_last' = m.fr
     ELSE frames' = [frames EXCEPT ![p] = m.fr] /\ e_last' = IdleFrame
  /\ UNCHANGED <<supabase, store_up, store_rows, client, connected, rstore, use_redis,
                 now, last, written, nops>>
  /\ UNCHANGED <<keyVars, divVars, fnVars, batchVars>>

\* A call of get_similar_books by p, run to where it first waits or returns.
SimilarCall(p, book_id, limit, min_similarity, exclude_categories) ==
    /\ frames[p].pc = "idle"
    /\ \E ctx \in {Ctx(BookOrder)} :
       \E fr \in {[IdleFrame EXCEPT !.pc = "running", !.op = "similar",
                                    !.book_id = book_id, !.limit = limit,
                                    !.min_similarity = min_similarity,
                                    !.exclude_categories = exclude_categories]} :
       \E m \in {NoteEntry(Machine(fr), ctx, SimilarKey(book_id, limit, min_similarity))} :
       \E left \in {GetSimilarBooks(m, ctx)} : Commit(p, left)

CallSimilar(p) ==
  \E book_id \in BookIds, limit \in Limits, min_similarity \in MinSimilarities,
     exclude_categories \in ExcludeLists :
    /\ e_events < MaxEvents
    /\ e_events' = e_events + 1
    /\ SimilarCall(p, book_id, limit, min_similarity, exclude_categories)

\* A call of get_personalized_recommendations by p.
PersonalizedCall(p, user_id, limit, exclude_purchased, order) ==
    /\ frames[p].pc = "idle"
    /\ \E ctx \in {Ctx(order)} :
       \E fr \in {[IdleFrame EXCEPT !.pc = "running", !.op = "personalized",
                                    !.user_id = user_id, !.limit = limit,
                                    !.exclude_purchased = exclude_purchased,
                                    !.zero_history =
                                       ~\E i \in DOMAIN store_rows :
                                           store_rows[i].user_id = user_id]} :
       \E m \in {NoteEntry(Machine(fr), ctx,
                            PersonalizedKey(user_id, limit, exclude_purchased))} :
       \E left \in {GetPersonalizedRecommendations(m, ctx)} : Commit(p, left)

CallPersonalized(p) ==
  \E user_id \in Users, limit \in Limits, exclude_purchased \in BOOLEAN,
     order \in BookOrders :
    /\ e_events < MaxEvents
    /\ e_events' = e_events + 1
    /\ PersonalizedCall(p, user_id, limit, exclude_purchased, order)

\* A call of get_trending_books by p with the default window and threshold.
TrendingCall(p, limit, order) ==
    /\ frames[p].pc = "idle"
    /\ \E ctx \in {Ctx(order)} :
       \E fr \in {[IdleFrame EXCEPT !.pc = "running", !.op = "trending", !.limit = limit,
                                    !.time_window_days = DefaultTimeWindowDays,
                                    !.min_interactions = DefaultMinInteractions]} :
       \E m \in {NoteEntry(Machine(fr), ctx,
                            TrendingKey(limit, DefaultTimeWindowDays,
                                        DefaultMinInteractions))} :
       \E left \in {GetTrendingBooks(m, ctx)} : Commit(p, left)

CallTrending(p) ==
  \E limit \in Limits, order \in BookOrders :
    /\ e_events < MaxEvents
    /\ e_events' = e_events + 1
    /\ TrendingCall(p, limit, order)

\* The continuation of a waiting call when the provider answers.
Resume(m, ctx, ok) ==
  CASE m.fr.pc = "similar_target" ->
         Bind(GetOrGenerateFinish(m, ctx, m.fr.gen, ok), LAMBDA g :
           SimilarAfterTarget(g.m, ctx, g.vec))
    [] m.fr.pc = "similar_candidate" ->
         Bind(GetOrGenerateFinish(m, ctx, m.fr.gen, ok), LAMBDA g :
         Bind(SimilarAccept(g.m, m.fr.gen, g.vec), LAMBDA m1 : SimilarLoop(m1, ctx)))
    [] m.fr.pc = "personalized_profile" ->
         Bind(BuildUserProfileFinish(m, ok), LAMBDA b :
           PersonalizedAfterProfile(b.m, ctx, b.profile))
    [] m.fr.pc = "personalized_candidate" ->
         Bind(GetOrGenerateFinish(m, ctx, m.fr.gen, ok), LAMBDA g :
         Bind(PersonalizedAccept(g.m, m.fr.gen, g.vec),
              LAMBDA m1 : PersonalizedLoop(m1, ctx)))

ProviderReturns(p) ==
  \E ok \in BOOLEAN :
    /\ frames[p].pc \in Suspended
    /\ \E m \in {Machine(frames[p])}, ctx \in {Ctx(BookOrder)} :
       \E left \in {Resume(m, ctx, ok)} : Commit(p, left)
    /\ UNCHANGED e_events

notEngine == <<keyVars, divVars, fnVars, batchVars, cache, access_times, client, connected, rstore,
               use_redis, stats, last, written, nops>>

\* A purchase or an interaction lands in the store.
AddInteraction ==
  \E row \in NewRows :
    /\ supabase
    /\ Len(store_rows) < MaxRows
    /\ store_rows' = Append(store_rows, row)
    /\ e_events < MaxEvents
    /\ e_events' = e_events + 1
    /\ e_last' = IdleFrame
    /\ UNCHANGED <<supabase, store_up, book_embeddings, ecache, e_stats, frames,
                   now>>
    /\ UNCHANGED notEngine

\* The store stops answering, or answers again.
StoreTurns(up) ==
  /\ supabase
  /\ store_up = ~up
  /\ store_up' = up
  /\ e_last' = IdleFrame
  /\ UNCHANGED <<supabase, book_embeddings, store_rows, ecache, e_stats, frames,
                 now>>
  /\ UNCHANGED notEngine

StoreFails ==
  /\ e_events < MaxEvents
  /\ e_events' = e_events + 1
  /\ StoreTurns(FALSE)

StoreRecovers ==
  /\ e_events < MaxEvents
  /\ e_events' = e_events + 1
  /\ StoreTurns(TRUE)

EngineTick ==
  /\ now < MaxTime
  /\ now' = now + 1
  /\ e_last' = IdleFrame
  /\ UNCHANGED <<supabase, store_up, book_embeddings, store_rows, ecache, e_stats,
                 frames, e_events>>
  /\ UNCHANGED notEngine

EngineNext ==
  \/ \E p \in Callers : CallSimilar(p)
  \/ \E p \in Callers : CallPersonalized(p)
  \/ \E p \in Callers : CallTrending(p)
  \/ \E p \in Callers : ProviderReturns(p)
  \/ AddInteraction
  \/ StoreFails
  \/ StoreRecovers
  \/ EngineTick

(***************************************************************************)
(* The trending strategy through an outage of the store: one caller's      *)
(* trending calls, the store failing and recovering, the clock.            *)
(***************************************************************************)
MaxOutageEvents == 3

\* A bestseller and a book just short of the threshold: 51 purchases of one
\* book by readers outside Users, 4 views of another.
BestsellerRows ==
  [i \in 1..51 |-> Row("u9", "b2", "purchase", 0, FALSE)]
    \o [i \in 1..4 |-> Row("u9", "b3", "view", 1, FALSE)]

OutageRows == InitialRows \cup {BestsellerRows}

OutageInit ==
  /\ supabase \in BOOLEAN
  /\ store_up = TRUE
  /\ book_embeddings = SomeEmbeddings
  /\ store_rows \in OutageRows
  /\ ecache = {}
  /\ e_stats = ZeroEngineStats
  /\ frames = [p \in Procs |-> IdleFrame]
  /\ e_last = IdleFrame
  /\ e_events = 0
  /\ cache = EmptyMap
  /\ access_times = <<>>
  /\ client = FALSE
  /\ connected = FALSE
  /\ rstore = EmptyMap
  /\ use_redis = FALSE
  /\ stats = ZeroStats
  /\ now = 0
  /\ last = NoOp
  /\ written = EmptyMap
  /\ nops = 0

OutageTrending(p) ==
  \E limit \in Limits :
    /\ e_events < MaxOutageEvents
    /\ e_events' = e_events + 1
    /\ TrendingCall(p, limit, BookOrder)

OutageBegins ==
  /\ e_events < MaxOutageEvents
  /\ e_events' = e_events + 1
  /\ StoreTurns(FALSE)

OutageEnds ==
  /\ e_events < MaxOutageEvents
  /\ e_events' = e_events + 1
  /\ StoreTurns(TRUE)

OutageNext ==
  \/ \E p \in Callers : OutageTrending(p)
  \/ OutageBegins
  \/ OutageEnds
  \/ EngineTick

(***************************************************************************)
(* The engine over a store that holds no embedding yet: every embedding    *)
(* is asked of the provider, which answers or fails.                       *)
(***************************************************************************)
MaxFreshCalls == 2

NoEmbeddings == [b \in {} |-> NoVec]
FreshBookIds == {"b1", "b3"}

FreshInit ==
  /\ supabase \in BOOLEAN
  /\ store_up = TRUE
  /\ book_embeddings = NoEmbeddings
  /\ store_rows \in InitialRows
  /\ ecache = {}
  /\ e_stats = ZeroEngineStats
  /\ frames = [p \in Procs |-> IdleFrame]
  /\ e_last = IdleFrame
  /\ e_events = 0
  /\ cache = EmptyMap
  /\ access_times = <<>>
  /\ client = FALSE
  /\ connected = FALSE
  /\ rstore = EmptyMap
  /\ use_redis = FALSE
  /\ stats = ZeroStats
  /\ now = 0
  /\ last = NoOp
  /\ written = EmptyMap
  /\ nops = 0

FreshSimilar(p) ==
  \E book_id \in FreshBookIds, min_similarity \in MinSimilarities :
    /\ e_events < MaxFreshCalls
    /\ e_events' = e_events + 1
    /\ SimilarCall(p, book_id, 2, min_similarity, <<>>)

FreshPersonalized(p) ==
  \E user_id \in Users, exclude_purchased \in BOOLEAN :
    /\ e_events < MaxFreshCalls
    /\ e_events' = e_events + 1
    /\ PersonalizedCall(p, user_id, 2, exclude_purchased, BookOrder)

\* EmbeddingService.clear_cache() between two calls: the embeddings kept in
\* the process go.
FreshClearCache ==
  /\ \A p \in Procs : frames[p].pc = "idle"
  /\ ecache # {}
  /\ ecache' = {}
  /\ e_last' = IdleFrame
  /\ UNCHANGED <<supabase, store_up, book_embeddings, store_rows, e_stats, frames,
                 e_events, now>>
  /\ UNCHANGED notEngine

FreshNext ==
  \/ \E p \in Callers : FreshSimilar(p)
  \/ \E p \in Callers : FreshPersonalized(p)
  \/ \E p \in Callers : ProviderReturns(p)
  \/ FreshClearCache
  \/ EngineTick

(***************************************************************************)
(* Two callers of the three strategies, so that calls overlap while one    *)
(* waits for the provider, and a store that fails and recovers.            *)
(***************************************************************************)
MaxStatCalls == 3

StatsSimilar(p) ==
  \E book_id \in FreshBookIds :
    /\ e_events < MaxStatCalls
    /\ e_events' = e_events + 1
    /\ SimilarCall(p, book_id, 2, 300, <<>>)

StatsPersonalized(p) ==
  \E user_id \in Users :
    /\ e_events < MaxStatCalls
    /\ e_events' = e_events + 1
    /\ PersonalizedCall(p, user_id, 2, FALSE, BookOrder)

StatsTrending(p) ==
  /\ e_events < MaxStatCalls
  /\ e_events' = e_events + 1
  /\ TrendingCall(p, 2, BookOrder)

StatsStoreTurns ==
  \E up \in BOOLEAN :
    /\ StoreTurns(up)
    /\ UNCHANGED e_events

StatsNext ==
  \/ \E p \in Procs : StatsSimilar(p)
  \/ \E p \in Procs : StatsPersonalized(p)
  \/ \E p \in Procs : StatsTrending(p)
  \/ \E p \in Procs : ProviderReturns(p)
  \/ StatsStoreTurns

(***************************************************************************)
(* Two callers of get_similar_books: a call that waits for the provider    *)
(* leaves the event loop to the other caller.                              *)
(***************************************************************************)
MaxRaceCalls == 2

RaceBookIds == {"b1", "b3"}

RaceSimilar(p) ==
  \E book_id \in RaceBookIds, exclude_categories \in ExcludeLists :
    /\ e_events < MaxRaceCalls
    /\ e_events' = e_events + 1
    /\ SimilarCall(p, book_id, 2, 300, exclude_categories)

RaceNext ==
  \/ \E p \in Procs : RaceSimilar(p)
  \/ \E p \in Procs : ProviderReturns(p)
  \/ EngineTick

(***************************************************************************)
(* Calls of the functions of the similarity engine, each on arguments      *)
(* drawn from a small set.                                                 *)
(***************************************************************************)
NoCall == [fn |-> "none", args |-> <<>>, ret |-> <<>>]

FnIdle == f_call = NoCall

FnInit == f_call = NoCall

\* _build_user_profile on the interactions of a user, the provider answering.
BuildUserProfile(interactions) ==
  IF TimestampRaises(interactions) THEN EmptyProfile
  ELSE Bind(ProfileTallies(interactions,
                           [categories |-> <<>>, authors |-> <<>>, texts |-> <<>>]),
            LAMBDA tallies :
              MakeProfile(interactions, tallies,
                          IF tallies.texts = <<>> THEN NoVec
                          ELSE PreferenceEmbedding(tallies.texts)))

\* Histories of one user: views only, a purchase, a view and a like, a row
\* whose timestamp carries an offset.
AffinityHistories ==
  {<<Row("u1", "b1", "view", 0, FALSE)>>,
   <<Row("u1", "b1", "view", 3, FALSE), Row("u1", "b3", "view", 0, FALSE)>>,
   <<Row("u1", "b1", "purchase", 0, FALSE)>>,
   <<Row("u1", "b2", "view", 0, FALSE), Row("u1", "b3", "like", 1, FALSE)>>,
   <<Row("u1", "b1", "like", 0, TRUE)>>}

\* The profiles aggregation builds from them, and profiles that lack keys.
AffinityProfiles ==
  {BuildUserProfile(GetUserInteractions(TRUE, TRUE, h, "u1")) : h \in AffinityHistories}
    \cup {[has_keys |-> TRUE, preference_embedding |-> Absent,
           favorite_categories |-> <<"Romance">>, favorite_authors |-> fa,
           interaction_count |-> 1] : fa \in {Absent, <<"Ann">>}}

\* The rows of the catalogue, and the same rows without an author key.
AffinityBooks ==
  {BooksTable(b) : b \in Books} \cup {[BooksTable(b) EXCEPT !.author = Missing] : b \in Books}

CallAffinity ==
  /\ f_call = NoCall
  /\ \E user_profile \in AffinityProfiles, book \in AffinityBooks, e \in Books :
       /\ f_call' = [fn |-> "affinity",
                     args |-> <<user_profile, book, ProviderVector(BookText(e))>>,
                     ret |-> <<CalculateUserBookAffinity(user_profile, book,
                                                         ProviderVector(BookText(e)))>>]
       /\ UNCHANGED notFn

(***************************************************************************)
(* SimilarityEngine.tags_similarity.  The float intersection / union is    *)
(* the fraction <<numerator, denominator>> in lowest terms; 0.0 is <<0, 1>>.*)
(***************************************************************************)
Fraction(num, den) ==
  IF num = 0 THEN <<0, 1>> ELSE Bind(GCD(num, den), LAMBDA g : <<num \div g, den \div g>>)

\* Variant: the tags are compared as written, without lower().
TagsSimilarityAsWritten(tags_a, tags_b) ==
  IF tags_a = <<>> \/ tags_b = <<>> THEN <<0, 1>>
  ELSE LET set_a == {tags_a[i] : i \in DOMAIN tags_a}
           set_b == {tags_b[i] : i \in DOMAIN tags_b}
           intersection == Cardinality(set_a \cap set_b)
           union == Cardinality(set_a \cup set_b)
       IN  IF union = 0 THEN <<0, 1>> ELSE Fraction(intersection, union)

TagsSimilarity(tags_a, tags_b) ==
  IF tags_a = <<>> \/ tags_b = <<>> THEN <<0, 1>>
  ELSE LET set_a == {Lower(tags_a[i]) : i \in DOMAIN tags_a}
           set_b == {Lower(tags_b[i]) : i \in DOMAIN tags_b}
           intersection == Cardinality(set_a \cap set_b)
           union == Cardinality(set_a \cup set_b)
       IN  IF union = 0 THEN <<0, 1>> ELSE Fraction(intersection, union)

\* Tag lists of up to MaxTags tags, in either case and with repeats.
MaxTags == 2
TagNames == {"a", "A", "b", "B", "c"}
TagLists == UNION {[1..n -> TagNames] : n \in 0..MaxTags}

CallTags ==
  /\ f_call = NoCall
  /\ \E tags_a \in TagLists, tags_b \in TagLists :
       /\ f_call' = [fn |-> "tags", args |-> <<tags_a, tags_b>>,
                     ret |-> <<TagsSimilarity(tags_a, tags_b)>>]
       /\ UNCHANGED notFn

\* Vectors of no component or of two to MaxDim components (a sequence of one
\* element stands for None or for a missing key), and lists of up to MaxBatch
\* of them.
MaxDim == 3
MaxBatch == 2
Components == {-2, 0, 3}
Dims == {0} \cup 2..MaxDim
Vectors == UNION {[1..n -> Components] : n \in Dims}
BatchVectors == UNION {[1..n -> {0, 3}] : n \in Dims}
VectorLists == UNION {[1..n -> BatchVectors \cup {NoVec}] : n \in 0..MaxBatch}

CallCosine ==
  /\ f_call = NoCall
  /\ \E vector_a \in Vectors \cup {NoVec}, vector_b \in Vectors \cup {NoVec} :
       /\ f_call' = [fn |-> "cosine", args |-> <<vector_a, vector_b>>,
                     ret |-> <<CosineSimilarity(vector_a, vector_b)>>]
       /\ UNCHANGED notFn

CallBatchCosine ==
  /\ f_call = NoCall
  /\ \E query_vector \in BatchVectors \cup {NoVec}, candidate_vectors \in VectorLists :
       /\ f_call' = [fn |-> "batch_cosine", args |-> <<query_vector, candidate_vectors>>,
                     ret |-> BatchCosineSimilarity(query_vector, candidate_vectors)]
       /\ UNCHANGED notFn

\* Interactions as _get_user_interactions hands them over, with books of a
\* wider shelf: MaxProfileBooks books of as many categories by four authors.
MaxProfileBooks == 6
ShelfCategories == <<"Romance", "Mystery", "History", "Poetry", "Travel", "Science",
                     "Drama", "Essays">>
ShelfAuthors == <<"Ann", "Bob", "Cho", "Dee">>
ShelfIds == <<"s1", "s2", "s3", "s4", "s5", "s6", "s7", "s8">>

ShelfBook(i) ==
  [id |-> ShelfIds[i],
   category |-> ShelfCategories[((i - 1) % Len(ShelfCategories)) + 1],
   author |-> ShelfAuthors[((i - 1) % Len(ShelfAuthors)) + 1]]

ShelfInteraction(i, interaction_type, days_old, aware) ==
  [book_id |-> ShelfIds[i], book |-> ShelfBook(i),
   interaction_type |-> interaction_type, days_old |-> days_old, aware |-> aware,
   weight |-> Weight10(interaction_type)]

\* What a reader did with one book of the shelf: nothing, or one interaction.
ShelfChoices(i) ==
  {<<>>,
   <<ShelfInteraction(i, "view", 0, FALSE)>>,
   <<ShelfInteraction(i, "like", 0, FALSE)>>,
   <<ShelfInteraction(i, "like", 3650, FALSE)>>,
   <<ShelfInteraction(i, "purchase", 365, FALSE)>>}

RECURSIVE ShelfHistories(_)
ShelfHistories(n) ==
  IF n = 0 THEN {<<>>}
  ELSE Bind(ShelfHistories(n - 1), LAMBDA shorter :
         {h \o c : h \in shorter, c \in ShelfChoices(n)})

\* Histories handed to _build_user_profile: over the shelf, and the ones of
\* the catalogue (one of which has a timestamp that carries an offset).
ProfileHistories ==
  ShelfHistories(MaxProfileBooks)
    \cup {GetUserInteractions(TRUE, TRUE, h, "u1") : h \in AffinityHistories}

CallBuildProfile ==
  /\ f_call = NoCall
  /\ \E interactions \in ProfileHistories :
       /\ f_call' = [fn |-> "profile", args |-> <<interactions>>,
                     ret |-> <<BuildUserProfile(interactions)>>]
       /\ UNCHANGED notFn

\* The caller has used the result; the next call can be made.
FnReturn ==
  /\ f_call # NoCall
  /\ f_call' = NoCall
  /\ UNCHANGED notFn

FnNext ==
  \/ CallAffinity
  \/ CallCosine
  \/ CallBatchCosine
  \/ CallTags
  \/ CallBuildProfile
  \/ FnReturn

(***************************************************************************)
(* EmbeddingService.generate_batch_embeddings.  A call runs to its first   *)
(* await, then one chunk of batch_size texts at a time; between the chunks *)
(* other callers use the service.                                          *)
(***************************************************************************)
model_name == <<"m">>

\* ' '.join(text.strip().split()): runs of blanks become one, none at the ends
RECURSIVE Squeeze(_, _)
Squeeze(s, after_blank) ==
  IF s = <<>> THEN <<>>
  ELSE IF Head(s) = " "
       THEN IF after_blank THEN Squeeze(Tail(s), TRUE)
            ELSE <<" ">> \o Squeeze(Tail(s), TRUE)
       ELSE <<Head(s)>> \o Squeeze(Tail(s), FALSE)

PrepareText(text) ==
  Bind(Squeeze(text, TRUE), LAMBDA s :
    IF s # <<>> /\ s[Len(s)] = " " THEN SubSeq(s, 1, Len(s) - 1) ELSE s)

\* model_version of <<>> is None (or ""): the model's name is used
EmbeddingCacheKey(text, model_version) ==
  Md5Hex(text \o <<"_">> \o (IF model_version = <<>> THEN model_name ELSE model_version))

\* self.model.encode of one cleaned text
ModelEncode(text) ==
  CASE text = <<"a">> -> <<3, 0>>
    [] text = <<"b">> -> <<0, 3>>
    [] OTHER -> <<3, 3>>

IdleBatch ==
  [pc |-> "idle", texts |-> <<>>, model_version |-> <<>>, batch_size |-> 0,
   use_cache |-> FALSE, cache_keys |-> <<>>, embeddings |-> <<>>,
   texts_to_process |-> <<>>, text_indices |-> <<>>, i |-> 0, hits |-> 0,
   result |-> <<>>]

RECURSIVE InsertByIndex(_, _)
InsertByIndex(x, s) ==
  IF s = <<>> THEN <<x>>
  ELSE IF x.index < Head(s).index THEN <<x>> \o s
  ELSE <<Head(s)>> \o InsertByIndex(x, Tail(s))

RECURSIVE SortByIndex(_)
SortByIndex(embeddings) ==
  IF embeddings = <<>> THEN <<>>
  ELSE Bind(SortByIndex(SubSeq(embeddings, 1, Len(embeddings) - 1)), LAMBDA sorted :
         InsertByIndex(embeddings[Len(embeddings)], sorted))

\* Variant: the pairs are returned in the order they were appended.
BatchResultAsAppended(embeddings) ==
  [k \in DOMAIN embeddings |-> embeddings[k].embedding]

\* embeddings.sort(key=lambda x: x[0]); return [emb for _, emb in embeddings]
BatchResult(embeddings) ==
  Bind(SortByIndex(embeddings), LAMBDA sorted :
    [k \in DOMAIN sorted |-> sorted[k].embedding])

\* the loop over zip(cleaned_texts, cache_keys), from position k on
RECURSIVE BatchLookup(_, _, _, _)
BatchLookup(svc, fr, cleaned_texts, k) ==
  IF k > Len(cleaned_texts) THEN fr
  ELSE IF fr.use_cache /\ fr.cache_keys[k] \in DOMAIN svc
       THEN BatchLookup(svc,
              [fr EXCEPT !.hits = @ + 1,
                         !.embeddings = Append(@, [index |-> k - 1,
                                                   embedding |-> svc[fr.cache_keys[k]]])],
              cleaned_texts, k + 1)
       ELSE BatchLookup(svc,
              [fr EXCEPT !.texts_to_process = Append(@, cleaned_texts[k]),
                         !.text_indices = Append(@, k - 1)],
              cleaned_texts, k + 1)

BatchState(svc, fr) == [svc |-> svc, fr |-> fr]

\* generate_batch_embeddings up to its first await, or to its return
GenerateBatchEmbeddings(svc, loaded, texts, model_version, batch_size, use_cache) ==
  Bind([IdleBatch EXCEPT !.texts = texts, !.model_version = model_version,
                         !.batch_size = batch_size, !.use_cache = use_cache],
       LAMBDA fr0 :
    IF ~loaded THEN BatchState(svc, [fr0 EXCEPT !.pc = "raised"])
    ELSE IF texts = <<>> THEN BatchState(svc, [fr0 EXCEPT !.pc = "done"])
    ELSE Bind([k \in DOMAIN texts |-> PrepareText(texts[k])], LAMBDA cleaned_texts :
           Bind([fr0 EXCEPT !.cache_keys =
                   [k \in DOMAIN texts |-> EmbeddingCacheKey(cleaned_texts[k], model_version)]],
                LAMBDA fr1 :
             Bind(BatchLookup(svc, fr1, cleaned_texts, 1), LAMBDA fr :
               IF fr.texts_to_process # <<>>
               THEN BatchState(svc, [fr EXCEPT !.pc = "encoding"])
               ELSE BatchState(svc, [fr EXCEPT !.pc = "done",
                                               !.result = BatchResult(fr.embeddings)])))))

\* the pairs of zip(batch_embeddings, batch_indices) stored into the cache
RECURSIVE CacheChunk(_, _, _, _)
CacheChunk(svc, fr, batch_indices, j) ==
  IF j > Len(batch_indices) THEN svc
  ELSE CacheChunk(MapPut(svc, fr.cache_keys[batch_indices[j] + 1],
                         ModelEncode(fr.texts_to_process[fr.i + j])),
                  fr, batch_indices, j + 1)

\* one turn of the loop over range(0, len(texts_to_process), batch_size): the
\* executor returns the vectors of the chunk, or raises
BatchChunk(svc, loaded, fr, fails) ==
  IF ~loaded \/ fails THEN BatchState(svc, [fr EXCEPT !.pc = "raised"])
  ELSE Bind(Min(fr.i + fr.batch_size, Len(fr.texts_to_process)), LAMBDA stop :
    Bind(SubSeq(fr.texts_to_process, fr.i + 1, stop), LAMBDA batch_texts :
      Bind(SubSeq(fr.text_indices, fr.i + 1, stop), LAMBDA batch_indices :
        Bind([fr EXCEPT !.embeddings =
                @ \o [j \in DOMAIN batch_texts |->
                        [index |-> batch_indices[j], embedding |-> ModelEncode(batch_texts[j])]]],
             LAMBDA fr1 :
          Bind(IF fr.use_cache THEN CacheChunk(svc, fr, batch_indices, 1) ELSE svc,
               LAMBDA svc1 :
            IF fr.i + fr.batch_size < Len(fr.texts_to_process)
            THEN BatchState(svc1, [fr1 EXCEPT !.i = fr.i + fr.batch_size])
            ELSE BatchState(svc1, [fr1 EXCEPT !.i = fr.i + fr.batch_size, !.pc = "done",
                                              !.result = BatchResult(fr1.embeddings)]))))))

\* generate_embedding, from its call to its return
GenerateEmbedding(svc, loaded, text, model_version, use_cache) ==
  IF ~loaded \/ PrepareText(text) = <<>> THEN svc
  ELSE Bind(PrepareText(text), LAMBDA cleaned_text :
         Bind(EmbeddingCacheKey(cleaned_text, model_version), LAMBDA cache_key :
           IF use_cache /\ cache_key \notin DOMAIN svc
           THEN MapPut(svc, cache_key, ModelEncode(cleaned_text))
           ELSE svc))

\* Lists of up to MaxTexts texts, chunks of 1 to MaxBatchSize.
MaxTexts == 3
MaxBatchSize == 2
RawTexts == {<<"a">>, <<" ", "a", " ">>, <<"b">>}
TextLists == UNION {[1..n -> RawTexts] : n \in 0..MaxTexts}
ModelVersions == {<<>>, <<"v">>}

BatchIdle ==
  /\ svc_cache = EmptyMap
  /\ model_loaded = FALSE
  /\ b_frame = IdleBatch

BatchInit == BatchIdle

ServiceInitialize ==
  /\ ~model_loaded
  /\ model_loaded' = TRUE
  /\ UNCHANGED <<svc_cache, b_frame, notBatch>>

ServiceClearCache ==
  /\ svc_cache # EmptyMap
  /\ svc_cache' = EmptyMap
  /\ UNCHANGED <<model_loaded, b_frame, notBatch>>

ServiceCleanup ==
  /\ model_loaded
  /\ svc_cache' = EmptyMap
  /\ model_loaded' = FALSE
  /\ UNCHANGED <<b_frame, notBatch>>

CallGenerateEmbedding ==
  \E text \in RawTexts, model_version \in ModelVersions :
    /\ model_loaded
    /\ svc_cache' = GenerateEmbedding(svc_cache, model_loaded, text, model_version, TRUE)
    /\ svc_cache' # svc_cache
    /\ UNCHANGED <<model_loaded, b_frame, notBatch>>

CallGenerateBatch ==
  \E texts \in TextLists, model_version \in ModelVersions, batch_size \in 1..MaxBatchSize,
     use_cache \in BOOLEAN :
    /\ b_frame.pc = "idle"
    /\ \E r \in {GenerateBatchEmbeddings(svc_cache, model_loaded, texts, model_version,
                                         batch_size, use_cache)} :
         /\ svc_cache' = r.svc
         /\ b_frame' = r.fr
    /\ UNCHANGED <<model_loaded, notBatch>>

BatchChunkReturns ==
  \E fails \in BOOLEAN :
    /\ b_frame.pc = "encoding"
    /\ \E r \in {BatchChunk(svc_cache, model_loaded, b_frame, fails)} :
         /\ svc_cache' = r.svc
         /\ b_frame' = r.fr
    /\ UNCHANGED <<model_loaded, notBatch>>

\* The caller has the list, or the exception.
BatchReturn ==
  /\ b_frame.pc \in {"done", "raised"}
  /\ b_frame' = IdleBatch
  /\ UNCHANGED <<svc_cache, model_loaded, notBatch>>

BatchNext ==
  \/ ServiceInitialize
  \/ ServiceClearCache
  \/ ServiceCleanup
  \/ CallGenerateEmbedding
  \/ CallGenerateBatch
  \/ BatchChunkReturns
  \/ BatchReturn

(***************************************************************************)
(* Specifications: each drives one component and leaves the others idle.   *)
(***************************************************************************)
InitKeySpec == KeyInit /\ CacheIdle /\ DivIdle /\ EngineIdle /\ FnIdle /\ BatchIdle

SpecKey == InitKeySpec /\ [][KeyNext]_vars

InitCacheSpec == CacheInit /\ KeyIdle /\ DivIdle /\ EngineIdle /\ FnIdle /\ BatchIdle

SpecCache == InitCacheSpec /\ [][CacheNext]_vars

InitDivSpec == DivInit /\ KeyIdle /\ CacheIdle /\ EngineIdle /\ FnIdle /\ BatchIdle

SpecDiv == InitDivSpec /\ [][DivNext]_vars

\* The call runs on one thread that keeps executing: a step that can be taken
\* is taken.
SpecDivFair == SpecDiv /\ WF_vars(DivNext)

InitEngineSpec == EngineInit /\ KeyIdle /\ DivIdle /\ FnIdle /\ BatchIdle

SpecEngine == InitEngineSpec /\ [][EngineNext]_vars

InitOutageSpec == OutageInit /\ KeyIdle /\ DivIdle /\ FnIdle /\ BatchIdle

SpecOutage == InitOutageSpec /\ [][OutageNext]_vars

InitStatsSpec == EngineInit /\ KeyIdle /\ DivIdle /\ FnIdle /\ BatchIdle
SpecStats == InitStatsSpec /\ [][StatsNext]_vars

InitRaceSpec == EngineInit /\ KeyIdle /\ DivIdle /\ FnIdle /\ BatchIdle

SpecRace == InitRaceSpec /\ [][RaceNext]_vars

\* The provider answers every call that waits for it.
SpecRaceFair == SpecRace /\ \A p \in Procs : WF_vars(ProviderReturns(p))

InitUserCacheSpec == CacheInit /\ KeyIdle /\ DivIdle /\ EngineIdle /\ FnIdle /\ BatchIdle
SpecUserCache == InitUserCacheSpec /\ [][UserCacheNext]_vars

InitEvictSpec == EvictInit /\ KeyIdle /\ DivIdle /\ EngineIdle /\ FnIdle /\ BatchIdle
SpecEvict == InitEvictSpec /\ [][EvictNext]_vars

InitFreshSpec == FreshInit /\ KeyIdle /\ DivIdle /\ FnIdle /\ BatchIdle
SpecFresh == InitFreshSpec /\ [][FreshNext]_vars

InitFnSpec == FnInit /\ KeyIdle /\ CacheIdle /\ DivIdle /\ EngineIdle /\ BatchIdle

InitBatchSpec == BatchInit /\ KeyIdle /\ CacheIdle /\ DivIdle /\ EngineIdle /\ FnIdle
SpecBatch == InitBatchSpec /\ [][BatchNext]_vars

SpecFn == InitFnSpec /\ [][FnNext]_vars

(***************************************************************************)
(* Properties of the cache.                                                *)
(***************************************************************************)
\* C1: on the process-local backend, a get of a key that was set, made before
\* the ttl has elapsed and with no delete, clear or eviction of the key in
\* between, returns the value that was set; the first get made once the ttl
\* has elapsed is a miss and removes the entry from the map.
C1_SetThenGet ==
  (last.op = "get" /\ ~use_redis /\ last.tracking) =>
    IF last.at < last.tracked.at + last.tracked.ttl
    THEN last.ret = last.tracked.value
    ELSE /\ last.ret = PyNone
         /\ last.key \notin DOMAIN cache
         /\ last.key \notin DictKeys(access_times)

C1_Witness ==
  /\ last.op = "get"
  /\ ~use_redis
  /\ last.tracking
  /\ last.tracked.ttl > 0
  /\ last.at >= last.tracked.at + last.tracked.ttl
  /\ last.ret = PyNone

\* C2: when the backend fails during a get, set or delete of the manager, get
\* returns a miss, set and delete return false, nothing is raised to the
\* caller, and the manager's error counter is incremented.
C2_BackendFailureCounted ==
  (last.op \in {"get", "set", "delete"} /\ last.failed) =>
    /\ last.op = "get" => last.ret = PyNone
    /\ last.op \in {"set", "delete"} => last.ret = FALSE
    /\ ~last.propagated
    /\ stats.errors = last.errors_before + 1

\* C3: on either backend, after clear(pattern) returns, the call has reported
\* success and a get is a miss for every key matching the pattern.
C3_ClearContract ==
  (last.op = "clear" /\ ~last.failed) =>
    /\ last.ret = TRUE
    /\ \A k \in DOMAIN cache :
         GlobMatch(last.pattern, k) => cache[k].expires_at <= now
    /\ \A k \in LiveKeys(rstore, now) : ~GlobMatch(MakeKey(last.pattern), k)

\* C6: the process-local cache never stores more than max_size entries.
C6_Bounded == Cardinality(DOMAIN cache) <= max_size

C6_Witness ==
  /\ last.op = "set"
  /\ ~use_redis
  /\ last.full_before
  /\ Cardinality(DOMAIN cache) = max_size

(***************************************************************************)
(* Properties of key generation.                                           *)
(***************************************************************************)
EncodePair(p) == p.k \o <<"=">> \o FormatValue(p.v)

RECURSIVE EncodedLen(_)
EncodedLen(ps) ==
  IF ps = <<>> THEN 0
  ELSE Len(EncodePair(Head(ps))) + (IF Len(ps) > 1 THEN 1 ELSE 0) + EncodedLen(Tail(ps))

\* The "&"-separated fields of a string, each with the position it starts at.
FieldsOf(s) ==
  LET seps == {0, Len(s) + 1} \cup {i \in 1..Len(s) : s[i] = "&"}
  IN  {[start |-> a + 1, text |-> SubSeq(s, a + 1, b - 1)] :
         <<a, b>> \in {ab \in seps \X seps :
                        /\ ab[1] < ab[2]
                        /\ \A c \in seps : ~(ab[1] < c /\ c < ab[2])}}

NameOf(field) ==
  LET eqs == {i \in 1..Len(field) : field[i] = "="}
  IN  IF eqs = {} THEN field
      ELSE SubSeq(field, 1, (CHOOSE i \in eqs : \A j \in eqs : i <= j) - 1)

KeySuffix == SubSeq(k_key, Len(k_base) + 2, Len(k_key))

\* C4: the key generated from a set of parameter pairs is the same whatever
\* order the pairs are supplied in.
C4_OrderIndependent ==
  (k_key # NoKey /\ k_key2 # NoKey) => k_key = k_key2

C4_Witness ==
  /\ k_key # NoKey
  /\ k_key2 # NoKey
  /\ Len(k_params) = 2
  /\ k_other # k_params
  /\ k_other # SortParams(k_other)

\* C5: no parameters give the base key alone; otherwise the key is `base:`
\* followed by the sorted k=v pairs joined with & when that string has at most
\* 100 characters and by a 32-digit hash when it is longer, so the part after
\* the namespace never exceeds 100 characters.
C5_KeyShape ==
  k_key # NoKey =>
    /\ k_params = <<>> => k_key = k_base
    /\ k_params # <<>> =>
         /\ Len(k_key) >= Len(k_base) + 1
         /\ SubSeq(k_key, 1, Len(k_base) + 1) = k_base \o <<":">>
         /\ Len(KeySuffix) <= 100
         /\ EncodedLen(k_params) <= 100 =>
              /\ Len(KeySuffix) = EncodedLen(k_params)
              /\ {f.text : f \in FieldsOf(KeySuffix)}
                   = {EncodePair(k_params[i]) : i \in DOMAIN k_params}
              /\ \A f, g \in FieldsOf(KeySuffix) :
                   f.start < g.start => StrLess(NameOf(f.text), NameOf(g.text))
         /\ EncodedLen(k_params) > 100 =>
              /\ Len(KeySuffix) = 32
              /\ \A i \in 1..32 : \E d \in 1..16 : KeySuffix[i] = HexDigits[d]

C5_Witness ==
  /\ k_key # NoKey
  /\ Len(k_params) = 2
  /\ EncodedLen(k_params) = 100
  /\ Len(KeySuffix) = 100

C5_WitnessHashed ==
  /\ k_key # NoKey
  /\ EncodedLen(k_params) = 101
  /\ Len(KeySuffix) = 32

(***************************************************************************)
(* Properties of the diversifier.                                          *)
(***************************************************************************)
\* C7: diversify_results never returns more than max_per_category items of
\* one category, the items without a category counting together as the
\* category "uncategorized".
C7_MaxPerCategory ==
  d_pc = "done" =>
    \A i \in DOMAIN d_result :
      CountIn(d_result, LAMBDA item : GroupCategory(item) = GroupCategory(d_result[i]))
        <= d_max_per_category

(***************************************************************************)
(* Properties of the recommendation engine.  e_last is the frame of the    *)
(* call that has just returned: its arguments, what it found under its key *)
(* when it started, and what it did.                                       *)
(***************************************************************************)
Returned(op) == e_last.pc = "done" /\ e_last.op = op

LastPersonalizedKey ==
  PersonalizedKey(e_last.user_id, e_last.limit, e_last.exclude_purchased)

\* What get_trending_books(limit) returns when called now.
TrendingNow(limit) ==
  GetTrendingBooks(Machine([IdleFrame EXCEPT !.op = "trending", !.limit = limit,
                                             !.time_window_days = DefaultTimeWindowDays,
                                             !.min_interactions = DefaultMinInteractions]),
                   Ctx(BookOrder)).fr.result

\* C8: a personalized call for a user who has no rows in the store returns
\* the very list the trending strategy returns for the same limit, and
\* nothing is written under the call's personalized key.
C8_ColdStartIsTrending ==
  (Returned("personalized") /\ e_last.zero_history) =>
     /\ e_last.result = TrendingNow(e_last.limit)
     /\ ~InSeq(LastPersonalizedKey, e_last.writes)
     /\ LastPersonalizedKey \notin DOMAIN cache

\* A user without history was served a trending list that is not empty.
C8_Witness ==
  /\ Returned("personalized")
  /\ e_last.zero_history
  /\ e_last.cold_start
  /\ e_last.result # <<>>
  /\ e_last.result = TrendingNow(e_last.limit)

\* C9: a call that finds an unexpired entry under its key (written by an
\* earlier call with the same key parameters) returns that entry's list and
\* queries nothing from the store.
C9_CachedResultServed ==
  (e_last.pc = "done" /\ e_last.pre_present) =>
     /\ e_last.hit
     /\ e_last.result = e_last.pre_value.v
     /\ ~e_last.fetched

\* The embedding the engine obtains for a book.
EmbeddingOf(book_id) == ProviderVector(BookText(book_id))

\* C10: a get_similar_books call that misses the cache returns at most
\* `limit` items; each is a book of the catalogue other than the target,
\* scored with its cosine similarity to the target, which is at least
\* min_similarity; the scores descend.
C10_SimilarMiss ==
  (Returned("similar") /\ ~e_last.hit) =>
     LET result == e_last.result
     IN  /\ Len(result) <= e_last.limit
         /\ \A i \in DOMAIN result :
               /\ result[i].id \in Books \ {e_last.book_id}
               /\ result[i].similarity_score =
                     CosineSimilarity(EmbeddingOf(e_last.book_id), EmbeddingOf(result[i].id))
               /\ result[i].similarity_score >= e_last.min_similarity
         /\ \A i \in 1..(Len(result) - 1) :
               result[i].similarity_score >= result[i + 1].similarity_score

\* Two candidates of different categories, both above the threshold, are
\* both returned with limit 2, the better one first.
C10_Witness ==
  /\ Returned("similar")
  /\ ~e_last.hit
  /\ e_last.limit = 2
  /\ e_last.min_similarity = 300
  /\ Len(e_last.result) = 2
  /\ e_last.result[1].category # e_last.result[2].category
  /\ e_last.result[1].similarity_score > e_last.result[2].similarity_score
  /\ e_last.result[2].similarity_score >= 300

\* C11 as stated: whenever the store is not configured or does not answer,
\* a call of get_trending_books returns the empty list.
C11_StoreDownAlwaysEmpty ==
  (Returned("trending") /\ (~supabase \/ ~store_up)) => e_last.result = <<>>

\* C11, amended: a call of get_trending_books that is not served from the
\* cache while the store is not configured or does not answer returns (it
\* does not raise) and returns the empty list.
C11_StoreDownMissEmpty ==
  (e_last.op = "trending" /\ e_last.pc # "idle" /\ ~e_last.hit
     /\ (~supabase \/ ~store_up))
    => e_last.pc = "done" /\ e_last.result = <<>>

\* A call that reached the store while it was down, with a book that trends.
C11_Witness ==
  /\ Returned("trending") /\ ~e_last.hit /\ supabase /\ ~store_up
  /\ e_last.fetched /\ e_last.result = <<>>
  /\ Len(store_rows) >= DefaultMinInteractions

(***************************************************************************)
(* Properties of the similarity engine's functions.                        *)
(***************************************************************************)
\* the category and author terms of the affinity, and their weights
CategoryTerm(user_profile, book) ==
  BestMatch(user_profile.favorite_categories, Lower(book.category), 700, 0)
AuthorTerm(user_profile, book) ==
  BestMatch(user_profile.favorite_authors, Lower(book.author), 800, 0)

\* C12: for a profile built by aggregation whose preference embedding is None,
\* the affinity is the weighted mean of the category and author terms alone
\* (weights 0.3 and 0.2); with only the category term evaluable (the book has
\* no author) and an exact favourite-category match it is 1.0.
C12_NoEmbeddingNormalized ==
  LET user_profile == f_call.args[1]
      book == f_call.args[2]
  IN  (/\ f_call.fn = "affinity"
       /\ user_profile.has_keys
       /\ user_profile.preference_embedding = NoVec)
        => IF book.author = Missing
           THEN f_call.ret[1] = 10 * CategoryTerm(user_profile, book)
           ELSE f_call.ret[1] = (10 * (3 * CategoryTerm(user_profile, book)
                                        + 2 * AuthorTerm(user_profile, book))) \div 5

\* a list of numbers (not None)
IsVector(v) == v # NoVec

\* C13 as stated: for all vectors a and b of equal length, the similarity of a
\* with itself is 1.0, the similarity of a and b is that of b and a, and
\* every result is within [0, 1].
C13_CosineForAllVectors ==
  LET a == f_call.args[1]
      b == f_call.args[2]
  IN  (f_call.fn = "cosine" /\ IsVector(a) /\ IsVector(b) /\ Len(a) = Len(b))
        => /\ (a = b => f_call.ret[1] = Scale)
           /\ f_call.ret[1] = CosineSimilarity(b, a)
           /\ f_call.ret[1] \in 0..Scale

\* C13, amended: for all vectors a and b of equal length, the similarity of a
\* with itself is 1.0 when a has a nonzero component (and 0.0 when a is empty
\* or all zeros), the similarity of a and b is that of b and a, and every
\* result is within [0, 1].
C13_CosineNonzero ==
  LET a == f_call.args[1]
      b == f_call.args[2]
  IN  (f_call.fn = "cosine" /\ IsVector(a) /\ IsVector(b) /\ Len(a) = Len(b))
        => /\ (a = b => f_call.ret[1] = IF \E i \in DOMAIN a : a[i] # 0
                                         THEN Scale ELSE 0)
           /\ f_call.ret[1] = CosineSimilarity(b, a)
           /\ f_call.ret[1] \in 0..Scale

\* Two different vectors of two components with a similarity strictly
\* between 0 and 1.
C13_Witness ==
  /\ f_call.fn = "cosine"
  /\ f_call.args[1] = <<3, 0>> /\ f_call.args[2] = <<3, 3>>
  /\ f_call.ret[1] \in 1..(Scale - 1)

\* C14: cosine_similarity returns 0.0 when either vector is empty or the two
\* differ in length; batch_cosine_similarity returns as many entries as
\* there are candidates, all 0.0 when a candidate's width disagrees with the
\* query's.
C14_MalformedScoresZero ==
  /\ f_call.fn = "cosine" =>
       LET a == f_call.args[1]
           b == f_call.args[2]
       IN  (IsVector(a) /\ IsVector(b) /\ (Len(a) = 0 \/ Len(b) = 0 \/ Len(a) # Len(b)))
             => f_call.ret[1] = 0
  /\ f_call.fn = "batch_cosine" =>
       LET query == f_call.args[1]
           candidates == f_call.args[2]
       IN  /\ Len(f_call.ret) = Len(candidates)
           /\ (/\ IsVector(query)
               /\ \A i \in DOMAIN candidates : IsVector(candidates[i])
               /\ \E i \in DOMAIN candidates : Len(candidates[i]) # Len(query))
                => \A i \in DOMAIN f_call.ret : f_call.ret[i] = 0

\* Two candidates of one component against a query of two.
C14_Witness ==
  /\ f_call.fn = "batch_cosine"
  /\ f_call.args[1] = <<3, 3>> /\ f_call.args[2] = << <<3, 0, 3>>, <<3, 3, 3>> >>
  /\ f_call.ret = <<0, 0>>

\* C15: a get_similar_books call that missed the cache and has the target's
\* embedding computes its result and writes it under its key, whether or not
\* another call wrote that key in the meantime, and the entry it leaves is
\* its own result; every call that waits for the provider returns.
C15_NoDeduplication ==
  /\ [](  (Returned("similar") /\ ~e_last.hit /\ e_last.target_embedding # NoVec)
          => /\ InSeq(e_last.key, e_last.writes)
             /\ e_last.key \in DOMAIN cache
             /\ cache[e_last.key].value = PyList(e_last.result)
             /\ cache[e_last.key].created_at = now)
  /\ \A p \in Procs : (frames[p].pc \in Suspended) ~> (frames[p].pc = "idle")

\* Two calls were made and both have returned; both missed, both wrote, and
\* one key is in the cache: the one that returned last found no entry when it
\* started, so the other wrote while it ran.
C15_Witness ==
  /\ Returned("similar") /\ ~e_last.hit /\ ~e_last.pre_present /\ now = 0
  /\ \A p \in Procs : frames[p].pc = "idle"
  /\ e_stats.similar_book_requests = 2 /\ e_stats.cache_misses = 2
  /\ stats.sets = 2
  /\ DOMAIN cache = {e_last.key}
  /\ cache[e_last.key].value = PyList(e_last.result)
  /\ e_last.result # <<>>

\* C16: a get_similar_books call for a book that the store does not hold
\* returns the empty list (it does not raise) and leaves the cache as it was:
\* no entry is written, none is removed.
C16_TargetAbsent ==
  [][(/\ e_events' = e_events + 1
      /\ e_last'.op = "similar" /\ e_last'.pc # "idle"
      /\ e_last'.book_id \notin Books)
       => /\ e_last'.pc = "done"
          /\ e_last'.result = <<>>
          /\ e_last'.writes = <<>>
          /\ cache' = cache
          /\ access_times' = access_times]_vars

\* The store answers, has no such book, and the cache holds an entry of an
\* earlier call.
C16_Witness ==
  /\ Returned("similar") /\ e_last.book_id \notin Books
  /\ supabase /\ store_up /\ e_last.fetched
  /\ e_last.result = <<>>
  /\ DOMAIN cache # {}
  /\ SimilarKey(e_last.book_id, e_last.limit, e_last.min_similarity) \notin DOMAIN cache

\* the rows of a book inside the window, of the given kinds
RowsInWindow(book_id, kinds, time_window_days) ==
  Cardinality({i \in DOMAIN store_rows :
                 /\ store_rows[i].book_id = book_id
                 /\ store_rows[i].interaction_type \in kinds
                 /\ store_rows[i].days_old < time_window_days})

\* C17: every item of a trending result that was computed (not served from
\* the cache) has at least min_interactions purchases plus clicks, views and
\* likes in the window, and its score is min(1.0, trend_score / 100), within
\* [0, 1].
C17_TrendingThreshold ==
  (Returned("trending") /\ ~e_last.hit) =>
    \A i \in DOMAIN e_last.result :
      LET item == e_last.result[i]
          purchases == RowsInWindow(item.id, {"purchase"}, e_last.time_window_days)
          interactions == RowsInWindow(item.id, {"click", "view", "like"},
                                       e_last.time_window_days)
          score == (2 * purchases + interactions) * (Scale \div 100)
      IN  /\ purchases + interactions >= e_last.min_interactions
          /\ item.similarity_score = IF score > Scale THEN Scale ELSE score
          /\ item.similarity_score \in 0..Scale

\* Two places asked for, min_interactions 5: the bestseller is returned with
\* the capped score, the book with 4 views is not.
C17_Witness ==
  /\ Returned("trending") /\ ~e_last.hit /\ e_last.limit = 2
  /\ e_last.min_interactions = 5
  /\ RowsInWindow("b3", {"purchase", "click", "view", "like"}, e_last.time_window_days) = 4
  /\ Len(e_last.result) = 1
  /\ e_last.result[1].id = "b2"
  /\ e_last.result[1].similarity_score = Scale

\* the tags of a list, each in lower case
FoldedTags(tags) == {Lower(tags[i]) : i \in DOMAIN tags}

\* C18: tags_similarity is |A \cap B| / |A \cup B| over the case-folded sets
\* of the two lists, and 0.0 when either list is empty; ["a","b"] against
\* ["b","c"] gives 1/3.
C18_TagsJaccard ==
  f_call.fn = "tags" =>
    LET tags_a == f_call.args[1]
        tags_b == f_call.args[2]
        score == f_call.ret[1]
        common == Cardinality(FoldedTags(tags_a) \cap FoldedTags(tags_b))
        either == Cardinality(FoldedTags(tags_a) \cup FoldedTags(tags_b))
    IN  /\ score[2] > 0
        /\ (tags_a = <<>> \/ tags_b = <<>>) => score[1] = 0
        /\ (tags_a # <<>> /\ tags_b # <<>>) => score[1] * either = common * score[2]
        /\ (tags_a = <<"a", "b">> /\ tags_b = <<"b", "c">>) => score = <<1, 3>>

\* Lists that differ in case and share one tag of three.
C18_Witness ==
  /\ f_call.fn = "tags"
  /\ f_call.args = << <<"A", "b">>, <<"B", "c">> >>
  /\ f_call.ret = << <<1, 3>> >>

\* C19: after invalidate_user_cache(u) returns, get_user_profile(u) and
\* get_recommendations(u, t) are misses for every recommendation type t.
C19_UserInvalidated ==
  last.op = "invalidate_user_cache" =>
    /\ GetUserProfile(use_redis, IM, RS, stats, last.key, now, FALSE).ret = PyNone
    /\ \A rec_type \in RecTypes :
         GetRecommendations(use_redis, IM, RS, stats, last.key, rec_type, now, FALSE).ret
           = PyNone

\* C20: a list returned by generate_batch_embeddings has one vector for each
\* input text, the i-th being the embedding of the i-th text, whatever was
\* in the embedding cache and whatever the chunk size.
C20_BatchOrder ==
  b_frame.pc = "done" =>
    /\ Len(b_frame.result) = Len(b_frame.texts)
    /\ \A k \in DOMAIN b_frame.texts :
         b_frame.result[k] = ModelEncode(PrepareText(b_frame.texts[k]))

\* Three texts in chunks of one: the last two were cached and are appended
\* first, the first is encoded after them.
C20_Witness ==
  /\ b_frame.pc = "done"
  /\ b_frame.texts = <<<<"b">>, <<"a">>, <<" ", "a", " ">>>>
  /\ b_frame.batch_size = 1
  /\ b_frame.hits = 2
  /\ b_frame.embeddings[1].index = 1
  /\ b_frame.result = <<<<0, 3>>, <<3, 0>>, <<3, 0>>>>

\* the time of the last access to a key that the cache holds
AccessTime(d, key) == d[CHOOSE i \in DOMAIN d : d[i].key = key].at

\* C21: a set that finds the process-local cache full, with n entries,
\* removes exactly max(1, n div 10) of them, and none of the removed was
\* accessed (by a successful get or by a set) later than any entry kept.
C21_EvictsOldestTenth ==
  [][(nops' = nops + 1 /\ last'.op = "imset" /\ last'.full_before)
       => LET n == Cardinality(DOMAIN cache)
              removed == last'.evicted
              kept == DOMAIN cache \ removed
          IN  /\ removed \subseteq DOMAIN cache
              /\ Cardinality(removed) = Max(1, n \div 10)
              /\ DOMAIN cache' = kept \cup {last'.key}
              /\ \A r \in removed, k \in kept :
                   AccessTime(access_times, r) <= AccessTime(access_times, k)]_vars

\* A full cache of EvictCap entries: the first key was read after the others
\* were written, so the set of a new key removes the second and the third.
C21_Witness ==
  /\ last.op = "imset" /\ last.full_before
  /\ last.key = EvictKey(EvictCap + 1)
  /\ last.evicted = {EvictKey(2), EvictKey(3)}
  /\ EvictKey(1) \in DOMAIN cache
  /\ AccessTime(access_times, EvictKey(1)) > 0
  /\ Cardinality(DOMAIN cache) = EvictCap - 1

\* C30: a set of a key that a full process-local cache already holds evicts
\* nothing: the cache still holds max_size entries afterwards.
C30_OverwriteKeepsOthers ==
  (last.op = "imset" /\ last.full_before /\ last.tracking)
    => /\ last.evicted = {}
       /\ Cardinality(DOMAIN cache) = EvictCap

ScoredIds(fr) == {fr.scored[i].id : i \in DOMAIN fr.scored}

\* the score get_similar_books or get_personalized_recommendations gives a
\* candidate of the call, and whether it passes the call's threshold
Passes(fr, candidate) ==
  LET embedding == ProviderVector(BookText(candidate.id))
  IN  IF fr.op = "similar"
      THEN CosineSimilarity(fr.target_embedding, embedding) >= fr.min_similarity
      ELSE CalculateUserBookAffinity(fr.user_profile, candidate, embedding)
             > AffinityThreshold

\* C22: a call of get_similar_books or get_personalized_recommendations that
\* had to skip candidates, for want of an embedding, still returns: every
\* other candidate was scored, those over the threshold are ranked, and the
\* result is drawn from them.
C22_CandidateSkipped ==
  (e_last.op \in {"similar", "personalized"} /\ e_last.pc # "idle"
     /\ e_last.skipped # <<>>)
    => /\ e_last.pc = "done"
       /\ \A i \in DOMAIN e_last.candidates :
            LET candidate == e_last.candidates[i]
            IN  IF InSeq(candidate.id, e_last.skipped)
                THEN candidate.id \notin ScoredIds(e_last)
                ELSE Passes(e_last, candidate) <=> candidate.id \in ScoredIds(e_last)
       /\ e_last.result =
            Take(DiversifyResults(Take(SortByScoreDesc(e_last.scored), e_last.limit * 2),
                                  DefaultMaxPerCategory), e_last.limit)

\* The provider fails for the first candidate and the call returns the
\* second.
C22_Witness ==
  /\ Returned("similar")
  /\ supabase /\ store_up
  /\ Len(e_last.candidates) = 2
  /\ e_last.skipped = <<e_last.candidates[1].id>>
  /\ Len(e_last.result) = 1
  /\ e_last.result[1].id = e_last.candidates[2].id

\* the books of which the store holds a purchase by the user
PurchasedBy(user_id) ==
  {store_rows[i].book_id : i \in {j \in DOMAIN store_rows :
      store_rows[j].user_id = user_id /\ store_rows[j].interaction_type = "purchase"}}

C24_ExcludedCategories ==
  Returned("similar") =>
    \A i \in DOMAIN e_last.result :
      ~InSeq(e_last.result[i].category, e_last.exclude_categories)

\* The weight a history accumulates for one category or author: the sum, over
\* the interactions with a book of that name, of the importance weight times
\* max(0.1, 1 - days_old * 0.1 / 365), over the denominator 36500.
RECURSIVE AccumulatedWeight(_, _, _)
AccumulatedWeight(interactions, field, name) ==
  IF interactions = <<>> THEN 0
  ELSE (IF Head(interactions).book[field] = name
        THEN Head(interactions).weight * Max(365, 3650 - Head(interactions).days_old)
        ELSE 0)
       + AccumulatedWeight(Tail(interactions), field, name)

NamesIn(interactions, field) ==
  {interactions[i].book[field] : i \in DOMAIN interactions} \ {None}

\* listed holds n names of the history, or all of them when there are fewer,
\* each once, by descending weight, and no name left out outweighs a listed one.
ListsHeaviest(listed, interactions, field, n) ==
  /\ Len(listed) = Min(n, Cardinality(NamesIn(interactions, field)))
  /\ \A i \in DOMAIN listed : listed[i] \in NamesIn(interactions, field)
  /\ \A i, j \in DOMAIN listed :
       i < j => /\ listed[i] # listed[j]
                /\ AccumulatedWeight(interactions, field, listed[i])
                     >= AccumulatedWeight(interactions, field, listed[j])
  /\ \A name \in NamesIn(interactions, field) \ {listed[i] : i \in DOMAIN listed} :
       \A i \in DOMAIN listed :
         AccumulatedWeight(interactions, field, name)
           <= AccumulatedWeight(interactions, field, listed[i])

\* C25: the profile built from a non-empty interaction history lists as
\* favorite categories the (at most) 5 categories, and as favorite authors the
\* (at most) 3 authors, with the largest accumulated weight, each interaction
\* adding its importance weight times max(0.1, 1 - daysOld * decayFactor / 365)
\* to the category and the author of its book; both lists are in descending
\* order of accumulated weight.
C25_FavoritesByWeight ==
  (f_call.fn = "profile" /\ f_call.args[1] # <<>>)
    => LET interactions == f_call.args[1]
           profile == f_call.ret[1]
       IN  /\ profile.has_keys
           /\ ListsHeaviest(profile.favorite_categories, interactions, "category", 5)
           /\ ListsHeaviest(profile.favorite_authors, interactions, "author", 3)

\* The same, for histories whose timestamps carry no offset.
C25_NaiveTimestamps ==
  (f_call.fn = "profile" /\ f_call.args[1] # <<>> /\ ~TimestampRaises(f_call.args[1]))
    => LET interactions == f_call.args[1]
           profile == f_call.ret[1]
       IN  /\ profile.has_keys
           /\ ListsHeaviest(profile.favorite_categories, interactions, "category", 5)
           /\ ListsHeaviest(profile.favorite_authors, interactions, "author", 3)

\* Six categories and four authors compete for the five and three places.
C25_Truncated ==
  /\ f_call.fn = "profile"
  /\ Cardinality(NamesIn(f_call.args[1], "category")) = 6
  /\ Len(f_call.ret[1].favorite_categories) = 5
  /\ Len(f_call.ret[1].favorite_authors) = 3
  /\ f_call.ret[1].favorite_authors[1] \in {"Ann", "Bob"}

\* C26: diversify_results returns a re-ordering of a sub-collection of its
\* input: every returned item is an input item, no item is returned more often
\* than it occurs in the input, and the output is in descending order of
\* score; an empty input is returned as it is.
C26_SortedSubCollection ==
  d_pc = "done" =>
    /\ \A i \in DOMAIN d_result :
         /\ \E j \in DOMAIN d_candidates : d_candidates[j] = d_result[i]
         /\ CountIn(d_result, LAMBDA item : item = d_result[i])
              <= CountIn(d_candidates, LAMBDA item : item = d_result[i])
    /\ \A i, j \in DOMAIN d_result :
         i < j => d_result[i].similarity_score >= d_result[j].similarity_score
    /\ d_candidates = <<>> => d_result = <<>>

\* Two of three candidates are kept, the better one of the capped category
\* first although it came last.
C26_Witness ==
  /\ d_pc = "done"
  /\ d_max_per_category = 1
  /\ d_candidates = <<[category |-> "Romance", similarity_score |-> 1],
                      [category |-> "Mystery", similarity_score |-> 1],
                      [category |-> "Romance", similarity_score |-> 2]>>
  /\ d_result = <<[category |-> "Romance", similarity_score |-> 2],
                  [category |-> "Mystery", similarity_score |-> 1]>>

\* C27: the round-robin loop of diversify_results terminates for every finite
\* candidate list and every max_per_category >= 1: the call returns, and each
\* pass over the categories either adds at least one item or ends the loop.
C27_LoopTerminates ==
  /\ <>(d_pc = "done")
  /\ [][(d_pc = "loop" /\ DivLoopCondition(d_groups, d_remaining))
          => \/ /\ Len(d_diversified') > Len(d_diversified)
                /\ d_remaining' < d_remaining
             \/ d_pc' = "sort"]_vars

\* Three candidates of one category and a cap of three: three passes.
C27_Witness ==
  /\ d_pc = "done"
  /\ d_max_per_category = 3
  /\ Len(d_candidates) = 3
  /\ \A i \in DOMAIN d_candidates : d_candidates[i].category = "Romance"
  /\ Len(d_result) = 3

\* The places where a call waits for the embedding of a book.
AwaitsBookEmbedding == {"similar_target", "similar_candidate", "personalized_candidate"}

\* C28: when the store holds no embedding for a book and the provider
\* succeeds, _get_or_generate_book_embedding upserts the generated vector and
\* returns it to its caller; from then on the vector stays in the store, a
\* call for the book returns the stored vector, and no call waits for the
\* provider for that book again.
C28_StoredEmbeddingReused ==
  [][supabase =>
       /\ \A p \in Procs :
            LET fr == frames[p]
                after == IF frames'[p].pc = "idle" THEN e_last' ELSE frames'[p]
                vec == ProviderVector(BookText(fr.gen.id))
            IN  (/\ fr.pc \in AwaitsBookEmbedding
                 /\ frames'[p] # fr
                 /\ fr.gen.id \notin DOMAIN book_embeddings
                 /\ BookText(fr.gen.id) \in ecache')
                  => /\ fr.gen.id \in DOMAIN book_embeddings'
                     /\ book_embeddings'[fr.gen.id] = vec
                     /\ ~InSeq(fr.gen.id, after.skipped)
                     /\ fr.pc = "similar_target" => after.target_embedding = vec
       /\ \A id \in DOMAIN book_embeddings :
            /\ id \in DOMAIN book_embeddings'
            /\ book_embeddings'[id] = book_embeddings[id]
            /\ LET r == GetOrGenerateStart(Machine(IdleFrame), Ctx(BookOrder), BooksTable(id))
               IN  /\ r.vec = book_embeddings[id]
                   /\ ~r.suspended
                   /\ r.m.emb = book_embeddings
                   /\ r.m.ecache = ecache
       /\ \A p \in Procs :
            (frames'[p].pc \in AwaitsBookEmbedding /\ frames'[p] # frames[p])
              => frames'[p].gen.id \notin DOMAIN book_embeddings']_vars

\* A second call that missed the cache has returned with all three books in
\* the store, the embedding service having forgotten what it generated.
C28_Witness ==
  /\ supabase
  /\ DOMAIN book_embeddings = Books
  /\ ecache = {}
  /\ e_events = 2
  /\ e_last.pc = "done"
  /\ ~e_last.hit
  /\ e_last.skipped = <<>>
  /\ e_last.result # <<>>
  /\ e_stats.cache_misses = 2

\* C29: whenever no strategy call is in progress, the requests counted for
\* the three strategies add up to the cache hits plus the cache misses,
\* whatever calls were made before, cold-start fallbacks and calls that ended
\* in an error included.
C29_RequestsAccounted ==
  (\A p \in Procs : frames[p].pc = "idle")
    => e_stats.similar_book_requests + e_stats.personalized_requests
         + e_stats.trending_requests
       = e_stats.cache_hits + e_stats.cache_misses

\* A cold start has just returned, after a similar call: the personalized
\* call and the trending call inside it were both counted, as requests and
\* as lookups.
C29_Witness ==
  /\ \A p \in Procs : frames[p].pc = "idle"
  /\ Returned("personalized")
  /\ e_last.cold_start
  /\ e_stats.personalized_requests = 1
  /\ e_stats.trending_requests = 1
  /\ e_stats.similar_book_requests = 1
  /\ e_stats.cache_hits + e_stats.cache_misses = 3
====
